---- MODULE Spec2Model ----
(***************************************************************************)
(* State-machine model of the healthcare booking agents:                   *)
(*   - the A2A triage service of identity_observe_wrapper_service.py       *)
(*     (a threaded Flask JSON-RPC server over the in-memory dict           *)
(*     self.tasks), specification Spec;                                    *)
(*   - the turn loop of the voice agent of va_a2a_mcp.py, SpecVoice;       *)
(*   - the turn loop of the voice agent of va_mcp.py, SpecVaMcp.           *)
(***************************************************************************)
EXTENDS Integers, Sequences, FiniteSets, Bags, TLC

(***************************************************************************)
(* Bounds of the model.                                                    *)
(***************************************************************************)
\* number of tasks the service creates
MaxTasks == 2
\* number of message/send requests the service accepts (new tasks and continuations)
MaxSends == 3
\* number of requests the threaded Flask server handles at the same time
NumWorkers == 2

(***************************************************************************)
(* A2A triage service: identity_observe_wrapper_service.py                 *)
(***************************************************************************)
VARIABLES
    tasks,      \* self.tasks: task id -> task dict
    nextId,     \* the ids uuid4 has handed out so far are 1..nextId-1
    thr,        \* bag of the request handlers blocked in an external call: where
                \* each one is blocked, and its locals
    resp,       \* the JSON-RPC response returned by the last step (NoResp if none)
    cancelled   \* ids of the tasks on which a tasks/cancel has succeeded

svcVars == <<tasks, nextId, thr, resp, cancelled>>

\* TaskState enum
SUBMITTED == "submitted"
WORKING == "working"
INPUT_REQUIRED == "input-required"
COMPLETED == "completed"
CANCELED == "canceled"
FAILED == "failed"
REJECTED == "rejected"
AUTH_REQUIRED == "auth-required"
UNKNOWN == "unknown"

TaskStates == {SUBMITTED, WORKING, INPUT_REQUIRED, COMPLETED, CANCELED, FAILED,
               REJECTED, AUTH_REQUIRED, UNKNOWN}

\* the list both handlers test before they touch a task
TerminalChecked == {COMPLETED, FAILED, CANCELED}

\* JSON-RPC codes; 0 stands for a response that carries "result"
RESULT_OK == 0
INVALID_PARAMS == -32602
TASK_NOT_FOUND == -32001
TASK_TERMINAL == -32002

\* a request that carries no taskId / no contextId (None)
NoId == 0
\* a taskId the service never issued (uuid4 never returns it)
StrayId == -1
\* contextId of a message that supplies one
ClientCtx == 1
\* contextId generated for task id i: str(uuid.uuid4()), distinct from ClientCtx
GenCtx(i) == 10 + i

\* texts a user message may carry
Texts == {"a"}

UserMsg(t) == [role |-> "user", text |-> t]
AgentMsg(t) == [role |-> "agent", text |-> t]
NoMsg == [role |-> "none", text |-> ""]

NoTask == [id |-> NoId, contextId |-> NoId, state |-> UNKNOWN, timestamp |-> 0,
           clock |-> 0, message |-> NoMsg, history |-> <<>>, artifacts |-> <<>>,
           metadata |-> [triage_token |-> "none", survey_id |-> "none",
                         triage_state |-> "none"]]

NoResp == [method |-> "none", taskId |-> NoId, hl |-> 0,
           code |-> RESULT_OK, result |-> NoTask, action |-> "none"]

\* a handler blocked at pc: the taskId its request carried, the task it works
\* on, and the task dict it holds while the task is not stored yet
Blocked(pc, req, tid, task) == [pc |-> pc, req |-> req, tid |-> tid, task |-> task]

\* _create_success_response / _create_error_response, with the request it answers
Response(method, taskId, hl, code, result, action) ==
    [method |-> method, taskId |-> taskId, hl |-> hl,
     code |-> code, result |-> result, action |-> action]

\* a task dict that takes the contextId of the message as it is, without
\* generating one when the message carries none
NewTaskKeepsContext(id, context_id, msg) ==
    [id |-> id, contextId |-> context_id,
     state |-> SUBMITTED, timestamp |-> 1, clock |-> 1, message |-> NoMsg,
     history |-> <<msg>>, artifacts |-> <<>>,
     metadata |-> [triage_token |-> "none", survey_id |-> "none",
                   triage_state |-> "starting"]]

\* the task dict built at the top of _create_new_task.  Time is counted per
\* task: clock is the number of writes of the task's status so far, each one
\* later than the one before, and timestamp is the time datetime.now() gave to
\* the last write of status.timestamp.
NewTask(id, context_id, msg) ==
    [id |-> id,
     contextId |-> IF context_id = NoId THEN GenCtx(id) ELSE context_id,
     state |-> SUBMITTED, timestamp |-> 1, clock |-> 1, message |-> NoMsg,
     history |-> <<msg>>, artifacts |-> <<>>,
     metadata |-> [triage_token |-> "none", survey_id |-> "none",
                   triage_state |-> "starting"]]

Put(f, k, v) == [x \in (DOMAIN f) \cup {k} |-> IF x = k THEN v ELSE f[x]]

Last(s, n) == SubSeq(s, Len(s) - n + 1, Len(s))

IsPrefix(s, t) == Len(s) <= Len(t) /\ SubSeq(t, 1, Len(s)) = s

SvcInit ==
    /\ tasks = <<>>
    /\ nextId = 1
    /\ thr = EmptyBag
    /\ resp = NoResp
    /\ cancelled = {}

\* params.get('historyLength', 10)
DefaultHistoryLength == 10

TaskIdInputs == {NoId, StrayId} \cup DOMAIN tasks
CtxInputs == {NoId, ClientCtx}
HistoryLengthInputs == {DefaultHistoryLength, 0, 1, 2}

\* what _send_triage_api_message can come back with: a failure (non-200 or an
\* exception caught in _send_triage_message) or a reply with a survey_state
TriageResults == {"fail", "in_progress", "present_result", "post_result", "other"}
\* what _get_triage_summary can come back with
SummaryResults == {"fail", "urgent"}

\* a thread is free to take a request that blocks
ThreadFree == BagCardinality(thr) < NumWorkers

UserCount(h) == Cardinality({i \in 1..Len(h) : h[i].role = "user"})

RECURSIVE SumUsers(_)
SumUsers(ids) ==
    IF ids = {} THEN 0
    ELSE LET t == CHOOSE x \in ids : TRUE
         IN UserCount(tasks[t].history) + SumUsers(ids \ {t})

\* the message/send requests accepted so far: every one has put its message
\* into a stored history or into the dict of a task being created
Accepted == SumUsers(DOMAIN tasks) + (nextId - 1 - Cardinality(DOMAIN tasks))

\* the model accepts another message/send
SendAllowed == Accepted < MaxSends

Block(r) == thr (+) SetToBag({r})
Unblock(r) == thr (-) SetToBag({r})

----------------------------------------------------------------------------
(* message/send *)

\* _handle_message_send without params.message
MessageSendInvalid ==
    /\ resp' = Response("message/send", NoId, 0, INVALID_PARAMS, NoTask,
                        "invalid_params")
    /\ UNCHANGED <<tasks, nextId, thr, cancelled>>

\* a _create_new_task that puts the task dict into self.tasks as soon as it is
\* built, before the triage session is started
CreateNewTaskStoresFirst(task_id, context_id, text) ==
    /\ nextId <= MaxTasks
    /\ SendAllowed
    /\ ThreadFree
    /\ thr' = Block(Blocked("start_triage", task_id, nextId,
                            NewTask(nextId, context_id, UserMsg(text))))
    /\ tasks' = Put(tasks, nextId, NewTask(nextId, context_id, UserMsg(text)))
    /\ nextId' = nextId + 1
    /\ resp' = NoResp
    /\ UNCHANGED cancelled

\* _create_new_task up to the blocking call of _start_triage_session.  The
\* demographics test cannot fail: age defaults to 30 and sex to 'male'.
CreateNewTask(task_id, context_id, text) ==
    /\ nextId <= MaxTasks
    /\ SendAllowed
    /\ ThreadFree
    /\ thr' = Block(Blocked("start_triage", task_id, nextId,
                            NewTask(nextId, context_id, UserMsg(text))))
    /\ nextId' = nextId + 1
    /\ resp' = NoResp
    /\ UNCHANGED <<tasks, cancelled>>

\* _continue_existing_task up to the blocking call of _send_triage_message
ContinueExistingTask(task_id, text) ==
    LET task == tasks[task_id] IN
    IF task.state \in TerminalChecked
    THEN /\ resp' = Response("message/send", task_id, 0, TASK_TERMINAL, NoTask,
                             "task_terminal_state")
         /\ UNCHANGED <<tasks, nextId, thr, cancelled>>
    ELSE /\ SendAllowed
         /\ ThreadFree
         /\ tasks' = [tasks EXCEPT ![task_id].history = Append(@, UserMsg(text))]
         /\ thr' = Block(Blocked("send_triage", task_id, task_id, NoTask))
         /\ resp' = NoResp
         /\ UNCHANGED <<nextId, cancelled>>

\* the "action" _handle_message_send leaves in a response that carries a task:
\* it overwrites the handler's own action by the task's state
FinalAction(task, action) ==
    CASE task.state = COMPLETED -> "triage_completed"
      [] task.state = INPUT_REQUIRED -> "triage_continuing"
      [] task.state = FAILED -> "triage_failed"
      [] OTHER -> action

\* the response of a message/send that returns a task
SendResult(req, task, action) ==
    Response("message/send", req, 0, RESULT_OK, task, FinalAction(task, action))

\* a message/send that answers "Task not found" to a taskId it does not track
HandleMessageSendStrict(task_id, context_id, text) ==
    IF task_id # NoId /\ task_id \in DOMAIN tasks
    THEN ContinueExistingTask(task_id, text)
    ELSE IF task_id # NoId
    THEN /\ resp' = Response("message/send", task_id, 0, TASK_NOT_FOUND, NoTask,
                             "not_found")
         /\ UNCHANGED <<tasks, nextId, thr, cancelled>>
    ELSE CreateNewTask(task_id, context_id, text)

\* a message/send that starts a new task whatever taskId it carries
HandleMessageSendAlwaysNew(task_id, context_id, text) ==
    CreateNewTask(task_id, context_id, text)

\* _handle_message_send: continue a tracked task, else create one
HandleMessageSend(task_id, context_id, text) ==
    IF task_id # NoId /\ task_id \in DOMAIN tasks
    THEN ContinueExistingTask(task_id, text)
    ELSE CreateNewTask(task_id, context_id, text)

\* a _create_new_task that leaves out task['metadata'].update(result['metadata'])
StartTriageReturnNoMetadata(r, ok) ==
    /\ r.pc = "start_triage"
    /\ LET task == r.task
           agent_message == AgentMsg("q")
           started == [task EXCEPT
                          !.metadata.triage_state = "in_progress",
                          !.state = INPUT_REQUIRED,
                          !.clock = @ + 1,
                          !.history = Append(@, agent_message),
                          !.message = agent_message]
           failed == [task EXCEPT !.state = FAILED, !.clock = @ + 1]
           stored == IF ok THEN started ELSE failed
       IN /\ tasks' = Put(tasks, task.id, stored)
          /\ resp' = SendResult(r.req, stored,
                                 IF ok THEN "triage_started" ELSE "triage_failed")
    /\ thr' = Unblock(r)
    /\ UNCHANGED <<nextId, cancelled>>

\* _create_new_task after _start_triage_session has returned
StartTriageReturn(r, ok) ==
    /\ r.pc = "start_triage"
    /\ LET task == r.task
           agent_message == AgentMsg("q")
           started == [task EXCEPT
                          !.metadata = [triage_token |-> "tok", survey_id |-> "survey",
                                        triage_state |-> "in_progress"],
                          !.state = INPUT_REQUIRED,
                          !.clock = @ + 1,
                          !.history = Append(@, agent_message),
                          !.message = agent_message]
           failed == [task EXCEPT !.state = FAILED, !.clock = @ + 1]
           stored == IF ok THEN started ELSE failed
       IN /\ tasks' = Put(tasks, task.id, stored)
          /\ resp' = SendResult(r.req, stored,
                                 IF ok THEN "triage_started" ELSE "triage_failed")
    /\ thr' = Unblock(r)
    /\ UNCHANGED <<nextId, cancelled>>

\* the state _continue_existing_task sets for a reply with survey_state s
StateAfterReply(s) ==
    IF s \in {"present_result", "post_result"} THEN COMPLETED ELSE INPUT_REQUIRED

ActionAfterReply(s) ==
    CASE s = "in_progress" -> "triage_continuing"
      [] s = "post_result" -> "triage_post_result"
      [] OTHER -> "triage_default_continue"

\* _continue_existing_task after _send_triage_message has returned
SendTriageReturn(r, result) ==
    /\ r.pc = "send_triage"
    /\ LET task_id == r.tid
           task == tasks[task_id]
           agent_message == AgentMsg("q")
           replied == [task EXCEPT
                          !.history = Append(@, agent_message),
                          !.message = agent_message,
                          !.metadata.triage_state = result,
                          !.state = StateAfterReply(result),
                          !.clock = @ + 1]
           failed == [task EXCEPT !.state = FAILED, !.clock = @ + 1]
       IN IF result = "fail"
          THEN /\ tasks' = [tasks EXCEPT ![task_id] = failed]
               /\ resp' = SendResult(r.req, failed, "triage_message_failed")
               /\ thr' = Unblock(r)
          ELSE /\ tasks' = [tasks EXCEPT ![task_id] = replied]
               /\ IF result = "present_result"
                  THEN /\ thr' = Unblock(r) (+) SetToBag({[r EXCEPT !.pc = "get_summary"]})
                       /\ resp' = NoResp
                  ELSE /\ thr' = Unblock(r)
                       /\ resp' = SendResult(r.req, replied, ActionAfterReply(result))
    /\ UNCHANGED <<nextId, cancelled>>

\* _continue_existing_task after _get_triage_summary has returned
SummaryReturn(r, summary) ==
    /\ r.pc = "get_summary"
    /\ LET task_id == r.tid
           artifact == [name |-> "Medical Triage Assessment",
                        urgency_level |-> IF summary = "fail" THEN "standard"
                                          ELSE summary]
           done == [tasks[task_id] EXCEPT !.artifacts = <<artifact>>]
       IN /\ tasks' = [tasks EXCEPT ![task_id] = done]
          /\ resp' = SendResult(r.req, done, "triage_completed")
    /\ thr' = Unblock(r)
    /\ UNCHANGED <<nextId, cancelled>>

----------------------------------------------------------------------------
(* tasks/get and tasks/cancel *)

\* a history cut that keeps the oldest messages: history[:history_length]
ReturnedHistoryOldest(history, history_length) ==
    IF history_length # 0 /\ Len(history) > history_length
    THEN SubSeq(history, 1, history_length)
    ELSE history

\* the history a tasks/get returns: task['history'][-history_length:] if
\* history_length is truthy and the history is longer, else the history
ReturnedHistory(history, history_length) ==
    IF history_length # 0 /\ Len(history) > history_length
    THEN Last(history, history_length)
    ELSE history

\* params.get('historyLength', 10) for params that do or do not carry the key
HistoryLength(params) ==
    IF params.given THEN params.historyLength ELSE DefaultHistoryLength

\* a tasks/get that cuts the stored history instead of a copy
HandleTasksGetInPlace(task_id, history_length) ==
    IF task_id = NoId \/ task_id \notin DOMAIN tasks
    THEN /\ resp' = Response("tasks/get", task_id, history_length, TASK_NOT_FOUND,
                             NoTask, "not_found")
         /\ UNCHANGED <<tasks, nextId, thr, cancelled>>
    ELSE LET task == tasks[task_id]
             cut == IF history_length # 0 /\ Len(task.history) > history_length
                    THEN [task EXCEPT !.history = Last(@, history_length)]
                    ELSE task
         IN /\ tasks' = [tasks EXCEPT ![task_id] = cut]
            /\ resp' = Response("tasks/get", task_id, history_length, RESULT_OK,
                                cut, "get")
            /\ UNCHANGED <<nextId, thr, cancelled>>

\* _handle_tasks_get
HandleTasksGet(task_id, history_length) ==
    /\ IF task_id = NoId \/ task_id \notin DOMAIN tasks
       THEN resp' = Response("tasks/get", task_id, history_length, TASK_NOT_FOUND,
                             NoTask, "not_found")
       ELSE LET task == tasks[task_id]
                task_copy == [task EXCEPT !.history = ReturnedHistory(@, history_length)]
            IN resp' = Response("tasks/get", task_id, history_length, RESULT_OK,
                                task_copy, "get")
    /\ UNCHANGED <<tasks, nextId, thr, cancelled>>

\* a tasks/cancel that also stores an agent message "Task has been canceled."
\* as the status message of the task
HandleTasksCancelWithMessage(task_id) ==
    IF task_id = NoId \/ task_id \notin DOMAIN tasks
    THEN /\ resp' = Response("tasks/cancel", task_id, 0, TASK_NOT_FOUND, NoTask,
                             "not_found")
         /\ UNCHANGED <<tasks, nextId, thr, cancelled>>
    ELSE IF tasks[task_id].state \in TerminalChecked
    THEN /\ resp' = Response("tasks/cancel", task_id, 0, TASK_TERMINAL, NoTask,
                             "terminal")
         /\ UNCHANGED <<tasks, nextId, thr, cancelled>>
    ELSE LET canceled == [tasks[task_id] EXCEPT !.state = CANCELED,
                                                !.clock = @ + 1,
                                                !.timestamp = tasks[task_id].clock + 1,
                                                !.message = AgentMsg("canceled")]
         IN
         /\ tasks' = [tasks EXCEPT ![task_id] = canceled]
         /\ resp' = Response("tasks/cancel", task_id, 0, RESULT_OK, canceled,
                             "canceled")
         /\ cancelled' = cancelled \cup {task_id}
         /\ UNCHANGED <<nextId, thr>>

\* _handle_tasks_cancel
HandleTasksCancel(task_id) ==
    IF task_id = NoId \/ task_id \notin DOMAIN tasks
    THEN /\ resp' = Response("tasks/cancel", task_id, 0, TASK_NOT_FOUND, NoTask,
                             "not_found")
         /\ UNCHANGED <<tasks, nextId, thr, cancelled>>
    ELSE IF tasks[task_id].state \in TerminalChecked
    THEN /\ resp' = Response("tasks/cancel", task_id, 0, TASK_TERMINAL, NoTask,
                             "terminal")
         /\ UNCHANGED <<tasks, nextId, thr, cancelled>>
    ELSE LET canceled == [tasks[task_id] EXCEPT !.state = CANCELED,
                                                !.clock = @ + 1,
                                                !.timestamp = tasks[task_id].clock + 1]
         IN
         /\ tasks' = [tasks EXCEPT ![task_id] = canceled]
         /\ resp' = Response("tasks/cancel", task_id, 0, RESULT_OK, canceled,
                             "canceled")
         /\ cancelled' = cancelled \cup {task_id}
         /\ UNCHANGED <<nextId, thr>>

(***************************************************************************)
(* Voice agent with the integrated triage sub-dialog: va_a2a_mcp.py        *)
(***************************************************************************)
VARIABLES
    turn,             \* turn of HealthcareAgent.start
    errors,           \* errors of HealthcareAgent.start
    session_data,     \* the keys of session.data that hold a non-empty value
    triage_complete,  \* session.triage_complete
    triage_attempts,  \* session.triage_attempts
    in_triage_mode,   \* session.in_triage_mode
    triage_task_id,   \* session.triage_task_id / triage_context_id are set
    vpc,              \* "loop", "ended" (session saved) or "crashed" (start() raised)
    files,            \* number of session files save_to_file has written
    last,             \* what the last turn did: its kind, the calls it made, the
                      \* assistant messages it appended, the triage reply it got
    discovery_calls   \* number of calls of insurance.discovery so far

voiceVars == <<turn, errors, session_data, triage_complete, triage_attempts,
               in_triage_mode, triage_task_id, vpc, files, last, discovery_calls>>

\* number of turns of the voice agent the model explores
MaxTurn == 5

\* while turn < 50 and errors < 3
TurnLimit == 50
ErrorLimit == 3
\* session.triage_attempts < 1
TriageAttemptLimit == 1

DiscoveryRequired == {"name", "date_of_birth", "state"}
EligibilityRequired == {"name", "date_of_birth", "member_id", "payer", "provider_name"}
DiscoveryProvides == {"payer", "member_id"}

\* the non-empty values an LLM result may carry in "extract": the loop stores
\* every key of the extract, the insurance keys included
ExtractInputs == {{}, {"name", "date_of_birth", "state"}, {"provider_name"},
                  {"payer", "member_id"}}

\* audio.listen() results that count as speech errors
SpeechErrors == {"UNCLEAR", "TIMEOUT", "ERROR"}

\* what a2a_client.send_message can bring back to _start_integrated_triage:
\* None, a task with or without a question, a result that is no task, or a
\* result that raises when it is read
StartReplies == {"none", "task_question", "task_silent", "not_task", "malformed"}

\* what a2a_client.send_message can bring back to _handle_triage_conversation:
\* None (error response, HTTP failure, timeout), or a task by state and message
TriageReplies == {"none", "completed", "question", "no_text", "silent", "failed",
                  "canceled", "other", "malformed"}

\* insurance.discovery: the fields found on success, "fail", or an exception
DiscoveryResults == {"both", "payer_only", "member_id_only", "neither", "fail", "raise"}
\* insurance.eligibility
EligibilityResults == {"verified", "fallback", "raise"}

Turn(kind, calls, said, reply) ==
    [kind |-> kind, calls |-> calls, said |-> said, reply |-> reply]

VoiceInit ==
    /\ turn = 0
    /\ errors = 0
    /\ session_data = {}
    /\ triage_complete = FALSE
    /\ triage_attempts = 0
    /\ in_triage_mode = FALSE
    /\ triage_task_id = FALSE
    /\ vpc = "loop"
    /\ files = 0
    /\ last = Turn("none", {}, <<>>, "none")
    /\ discovery_calls = 0

\* a loop condition that does not look at the speech-error counter
LoopRunsIgnoresErrors == vpc = "loop" /\ turn < TurnLimit

\* the loop takes another turn
LoopRuns == vpc = "loop" /\ turn < TurnLimit /\ errors < ErrorLimit

\* the model explores another turn
TurnAllowed == LoopRuns /\ turn < MaxTurn

\* a dispatch that sends every turn to the main flow
RouteMainOnly(mode) == "main"

\* if self.session.in_triage_mode: ... else: ...
Route(mode) == IF mode THEN "triage" ELSE "main"

\* a triage conversation that apologises for a failed call and stays in triage
\* mode
TriageConversationStays(reply) ==
    CASE reply = "completed" -> [ends |-> TRUE, said |-> <<"completion">>]
      [] reply = "question" -> [ends |-> FALSE, said |-> <<"question">>]
      [] reply \in {"no_text", "other"} -> [ends |-> FALSE, said |-> <<>>]
      [] reply \in {"none", "malformed"} -> [ends |-> FALSE, said |-> <<"fallback">>]
      [] OTHER -> [ends |-> TRUE, said |-> <<"fallback">>]

\* the effect of _handle_triage_conversation for a reply: whether it ends the
\* triage mode, and the assistant messages it appends
TriageConversation(reply) ==
    CASE reply = "completed" -> [ends |-> TRUE, said |-> <<"completion">>]
      [] reply = "question" -> [ends |-> FALSE, said |-> <<"question">>]
      [] reply \in {"no_text", "other"} -> [ends |-> FALSE, said |-> <<>>]
      [] OTHER -> [ends |-> TRUE, said |-> <<"fallback">>]

\* the effect of _start_integrated_triage for a reply
StartTriage(reply) ==
    CASE reply \in {"none", "malformed"} ->
             [ends |-> TRUE, task |-> FALSE, said |-> <<"intro", "fallback">>]
      [] reply = "task_question" ->
             [ends |-> FALSE, task |-> TRUE, said |-> <<"intro", "question">>]
      [] reply = "task_silent" ->
             [ends |-> FALSE, task |-> TRUE, said |-> <<"intro">>]
      [] OTHER -> [ends |-> FALSE, task |-> FALSE, said |-> <<"intro">>]

\* a test that starts triage whenever the LLM result asks for it
ShouldStartTriageAlways(need_triage) == need_triage

\* result.get("need_triage") and not triage_complete and triage_attempts < 1
\* and self.a2a_client (the client is always constructed)
ShouldStartTriage(need_triage) ==
    need_triage /\ ~triage_complete /\ triage_attempts < TriageAttemptLimit

\* result.get("call_discovery") and all required keys hold a value
DiscoveryReady(call_discovery, data) ==
    call_discovery /\ DiscoveryRequired \subseteq data

EligibilityReady(call_eligibility, data) ==
    call_eligibility /\ EligibilityRequired \subseteq data

\* listen() returned UNCLEAR, TIMEOUT or ERROR
TurnSpeechError(heard) ==
    /\ TurnAllowed
    /\ heard \in SpeechErrors
    /\ turn' = turn + 1
    /\ errors' = errors + 1
    /\ last' = Turn("speech_error", {}, <<>>, "none")
    /\ UNCHANGED <<session_data, triage_complete, triage_attempts, in_triage_mode,
                   triage_task_id, vpc, files, discovery_calls>>

\* listen() returned an empty string
TurnEmpty ==
    /\ TurnAllowed
    /\ turn' = turn + 1
    /\ last' = Turn("empty", {}, <<>>, "none")
    /\ UNCHANGED <<errors, session_data, triage_complete, triage_attempts,
                   in_triage_mode, triage_task_id, vpc, files, discovery_calls>>

\* the utterance contains 'bye', 'goodbye', 'end' or 'quit': farewell, break,
\* save_to_file
TurnFarewell ==
    /\ TurnAllowed
    /\ turn' = turn + 1
    /\ errors' = 0
    /\ last' = Turn("farewell", {}, <<"farewell">>, "none")
    /\ vpc' = "ended"
    /\ files' = files + 1
    /\ UNCHANGED <<session_data, triage_complete, triage_attempts, in_triage_mode,
                   triage_task_id, discovery_calls>>

\* a turn handled by _handle_triage_conversation
TurnTriage(reply) ==
    /\ TurnAllowed
    /\ Route(in_triage_mode) = "triage"
    /\ turn' = turn + 1
    /\ errors' = 0
    /\ LET out == TriageConversation(reply) IN
       /\ last' = Turn("triage", {"triage"}, out.said, reply)
       /\ IF out.ends
          THEN /\ in_triage_mode' = FALSE
               /\ triage_complete' = TRUE
               /\ triage_task_id' = FALSE
          ELSE UNCHANGED <<in_triage_mode, triage_complete, triage_task_id>>
    /\ UNCHANGED <<session_data, triage_attempts, vpc, files, discovery_calls>>

\* a main-flow turn in which llm.process raises: start() ends with the exception
TurnLlmRaises ==
    /\ TurnAllowed
    /\ Route(in_triage_mode) = "main"
    /\ turn' = turn + 1
    /\ errors' = 0
    /\ last' = Turn("crash", {"llm"}, <<>>, "none")
    /\ vpc' = "crashed"
    /\ UNCHANGED <<session_data, triage_complete, triage_attempts, in_triage_mode,
                   triage_task_id, files, discovery_calls>>

\* a main-flow turn whose LLM result starts the triage sub-dialog
TurnStartTriage(extract, reply) ==
    /\ TurnAllowed
    /\ Route(in_triage_mode) = "main"
    /\ ShouldStartTriage(TRUE)
    /\ turn' = turn + 1
    /\ errors' = 0
    /\ session_data' = session_data \cup extract
    /\ triage_attempts' = triage_attempts + 1
    /\ LET out == StartTriage(reply) IN
       /\ last' = Turn("start_triage", {"llm", "triage"}, out.said, reply)
       /\ in_triage_mode' = ~out.ends
       /\ triage_complete' = out.ends
       /\ triage_task_id' = out.task
    /\ UNCHANGED <<vpc, files, discovery_calls>>

\* the values a successful discovery stores: payer and member_id, either of
\* which may be the empty string
Found(d) ==
    CASE d = "both" -> {"payer", "member_id"}
      [] d = "payer_only" -> {"payer"}
      [] d = "member_id_only" -> {"member_id"}
      [] OTHER -> {}

\* session.data after the discovery branch
AfterDiscovery(data, d) ==
    IF d \in {"both", "payer_only", "member_id_only", "neither"}
    THEN (data \ DiscoveryProvides) \cup Found(d)
    ELSE data

\* the assistant messages of a main-flow turn
MainSaid(d, e, response, done) ==
    (IF d \in {"skipped", "raise"} THEN <<>>
     ELSE IF d = "fail" THEN <<"insurance_fallback">> ELSE <<"insurance">>)
    \o (IF d = "raise" \/ e \in {"skipped", "raise"} THEN <<>>
        ELSE IF e = "verified" THEN <<"eligibility">> ELSE <<"eligibility_fallback">>)
    \o (IF d = "raise" \/ e = "raise" THEN <<>>
        ELSE (IF response THEN <<"response">> ELSE <<>>)
             \o (IF done THEN <<"confirmation">> ELSE <<>>))

\* a main-flow turn that does not start triage: extraction, Discovery,
\* Eligibility, response, and on done the confirmation, break and save_to_file
TurnMain(extract, call_discovery, call_eligibility, response, done) ==
    /\ TurnAllowed
    /\ Route(in_triage_mode) = "main"
    /\ turn' = turn + 1
    /\ errors' = 0
    /\ LET data1 == session_data \cup extract
           disc == DiscoveryReady(call_discovery, data1)
       IN \E d \in IF disc THEN DiscoveryResults ELSE {"skipped"} :
          LET data2 == AfterDiscovery(data1, d)
              elig == d # "raise" /\ EligibilityReady(call_eligibility, data2)
          IN \E e \in IF elig THEN EligibilityResults ELSE {"skipped"} :
             LET crash == d = "raise" \/ e = "raise"
                 calls == {"llm"} \cup (IF disc THEN {"discovery"} ELSE {})
                                  \cup (IF elig THEN {"eligibility"} ELSE {})
             IN /\ session_data' = data2
                /\ discovery_calls' = discovery_calls + (IF disc THEN 1 ELSE 0)
                /\ last' = Turn(IF crash THEN "crash" ELSE "main", calls,
                                MainSaid(d, e, response, done), "none")
                /\ vpc' = IF crash THEN "crashed" ELSE IF done THEN "ended" ELSE "loop"
                /\ files' = IF ~crash /\ done THEN files + 1 ELSE files
    /\ UNCHANGED <<triage_complete, triage_attempts, in_triage_mode, triage_task_id>>

\* the loop condition fails: save_to_file
LoopExit ==
    /\ vpc = "loop"
    /\ ~(turn < TurnLimit /\ errors < ErrorLimit)
    /\ vpc' = "ended"
    /\ files' = files + 1
    /\ last' = Turn("exit", {}, <<>>, "none")
    /\ UNCHANGED <<turn, errors, session_data, triage_complete, triage_attempts,
                   in_triage_mode, triage_task_id, discovery_calls>>

(***************************************************************************)
(* Voice agent of va_mcp.py: start_intelligent_conversation                *)
(***************************************************************************)
VARIABLES
    turn_number,         \* turn_number
    consecutive_errors,  \* consecutive_errors
    mcp_data,            \* the keys of session.data that hold a non-empty value
    confirmation_code,   \* session.data["confirmation_code"]: NoCode, the code
                         \* _end_conversation generated, or one an extract wrote
    mpc,                 \* "loop"; "closing": in _end_conversation before
                         \* session.save(); "saved": after it, in
                         \* _display_final_summary; "ended"
    in_handler,          \* the except KeyboardInterrupt clause is running
    saves,               \* number of times session.save() has run
    end_calls,           \* number of times _end_conversation has been entered
    end_reason,          \* reason of the last _end_conversation
    mcp_last             \* what the last step was

mcpVars == <<turn_number, consecutive_errors, mcp_data, confirmation_code, mpc,
             in_handler, saves, end_calls, end_reason, mcp_last>>

\* number of turns of the va_mcp.py agent the model explores
MaxMcpTurn == 5

\* max_consecutive_errors = 3
MaxConsecutiveErrors == 3

McpFields == {"name", "preferred_date", "phone"}
ConfirmationRequired == {"name", "preferred_date"}

\* "extract" of an LLM result: the keys it fills and the keys it overwrites
\* with an empty value (session.data.update)
McpExtractInputs ==
    {<<{}, {}>>, <<{"name"}, {}>>, <<{"preferred_date"}, {}>>, <<{"phone"}, {}>>,
     <<{}, {"name"}>>}

\* session.data holds no confirmation_code, or an empty one
NoCode == "none"

\* what the "extract" of an LLM result does to the key confirmation_code: it
\* has no such key, it carries an empty value, or it carries a code of the
\* LLM's making (the prompt asks the LLM to generate confirmation codes)
McpCodeInputs == {"keep", NoCode, "llm_a", "llm_b"}

\* the confirmation_code after self.session.data.update(extract)
CodeAfterUpdate(held, code) == IF code = "keep" THEN held ELSE code

McpSpeechIssues == {"TIMEOUT", "UNCLEAR", "NETWORK_ERROR", "ERROR"}

McpInit ==
    /\ turn_number = 0
    /\ consecutive_errors = 0
    /\ mcp_data = {}
    /\ confirmation_code = NoCode
    /\ mpc = "loop"
    /\ in_handler = FALSE
    /\ saves = 0
    /\ end_calls = 0
    /\ end_reason = "none"
    /\ mcp_last = "none"

\* while consecutive_errors < max_consecutive_errors
McpLoopRuns == mpc = "loop" /\ consecutive_errors < MaxConsecutiveErrors

McpTurnAllowed == McpLoopRuns /\ turn_number < MaxMcpTurn

\* _should_generate_confirmation
ShouldGenerateConfirmation(data) == ConfirmationRequired \subseteq data

\* _end_conversation up to the delivery of the end message
EndConversation(reason, data, held) ==
    /\ end_calls' = end_calls + 1
    /\ end_reason' = reason
    /\ confirmation_code' = IF ShouldGenerateConfirmation(data) /\ held = NoCode
                            THEN "generated" ELSE held
    /\ mpc' = "closing"

\* listen() returned TIMEOUT, UNCLEAR, NETWORK_ERROR or ERROR
McpSpeechIssue(heard) ==
    /\ mcp_last' = "speech_issue"
    /\ McpTurnAllowed
    /\ heard \in McpSpeechIssues
    /\ turn_number' = turn_number + 1
    /\ consecutive_errors' = consecutive_errors + 1
    /\ UNCHANGED <<mcp_data, confirmation_code, mpc, in_handler, saves, end_calls,
                   end_reason>>

\* listen() returned an empty string
McpNoInput ==
    /\ mcp_last' = "no_input"
    /\ McpTurnAllowed
    /\ turn_number' = turn_number + 1
    /\ consecutive_errors' = consecutive_errors + 1
    /\ UNCHANGED <<mcp_data, confirmation_code, mpc, in_handler, saves, end_calls,
                   end_reason>>

\* _is_conversation_ending(user_input)
McpFarewell ==
    /\ mcp_last' = "farewell"
    /\ McpTurnAllowed
    /\ turn_number' = turn_number + 1
    /\ consecutive_errors' = 0
    /\ EndConversation("User requested to end", mcp_data, confirmation_code)
    /\ UNCHANGED <<mcp_data, in_handler, saves>>

\* a turn processed by the LLM
McpTurn(extract, code, done) ==
    /\ mcp_last' = "turn"
    /\ McpTurnAllowed
    /\ turn_number' = turn_number + 1
    /\ consecutive_errors' = 0
    /\ mcp_data' = (mcp_data \ extract[2]) \cup extract[1]
    /\ IF done
       THEN EndConversation("Completed successfully", mcp_data',
                            CodeAfterUpdate(confirmation_code, code))
       ELSE /\ confirmation_code' = CodeAfterUpdate(confirmation_code, code)
            /\ UNCHANGED <<mpc, end_calls, end_reason>>
    /\ UNCHANGED <<in_handler, saves>>

\* a turn in which processing raises after the counter was reset: the data the
\* turn has stored stay, except Exception counts one error
McpTurnException(extract, code) ==
    /\ mcp_last' = "exception"
    /\ McpTurnAllowed
    /\ turn_number' = turn_number + 1
    /\ consecutive_errors' = 1
    /\ mcp_data' = (mcp_data \ extract[2]) \cup extract[1]
    /\ confirmation_code' = CodeAfterUpdate(confirmation_code, code)
    /\ UNCHANGED <<mpc, in_handler, saves, end_calls, end_reason>>

\* the loop condition fails: if consecutive_errors >= max_consecutive_errors
McpLoopExit ==
    /\ mcp_last' = "exit"
    /\ mpc = "loop"
    /\ consecutive_errors >= MaxConsecutiveErrors
    /\ EndConversation("Too many consecutive errors", mcp_data, confirmation_code)
    /\ UNCHANGED <<turn_number, consecutive_errors, mcp_data, in_handler, saves>>

\* _end_conversation: filename = self.session.save()
McpSave ==
    /\ mcp_last' = "save"
    /\ mpc = "closing"
    /\ saves' = saves + 1
    /\ mpc' = "saved"
    /\ UNCHANGED <<turn_number, consecutive_errors, mcp_data, confirmation_code,
                   in_handler, end_calls, end_reason>>

\* _display_final_summary returns, _end_conversation returns to its caller,
\* which leaves the loop; finally: _cleanup_resources
McpReturn ==
    /\ mcp_last' = "return"
    /\ mpc = "saved"
    /\ mpc' = "ended"
    /\ UNCHANGED <<turn_number, consecutive_errors, mcp_data, confirmation_code,
                   in_handler, saves, end_calls, end_reason>>

\* KeyboardInterrupt raised inside the try block, in the loop or in an
\* _end_conversation it has called: except KeyboardInterrupt.  An interrupt of
\* the except clause itself is not modelled.
McpKeyboardInterrupt ==
    /\ mcp_last' = "interrupt"
    /\ mpc \in {"loop", "closing", "saved"}
    /\ ~in_handler
    /\ in_handler' = TRUE
    /\ EndConversation("Manually interrupted", mcp_data, confirmation_code)
    /\ UNCHANGED <<turn_number, consecutive_errors, mcp_data, saves>>

(***************************************************************************)
(* The history cut of tasks/get on histories of any length                 *)
(***************************************************************************)
VARIABLES
    get_history,   \* task['history'] of the task a tasks/get reads: message numbers
    get_params,    \* params of the last tasks/get
    get_returned,  \* the history in the task it returned
    get_called     \* a tasks/get has been answered

getVars == <<get_history, get_params, get_returned, get_called>>

\* length of the longest history a tasks/get is tried on
MaxHistory == 12

\* params without historyLength
NoHistoryLength == [given |-> FALSE, historyLength |-> 0]

\* params of a tasks/get: without historyLength, or with a value 0..MaxHistory
GetParamInputs ==
    {NoHistoryLength} \cup {[given |-> TRUE, historyLength |-> k] : k \in 0..MaxHistory}

GetInit ==
    /\ get_history = <<>>
    /\ get_params = NoHistoryLength
    /\ get_returned = <<>>
    /\ get_called = FALSE

\* task['history'].append(message): the history grows by one message
HistoryAppend ==
    /\ Len(get_history) < MaxHistory
    /\ get_history' = Append(get_history, Len(get_history) + 1)
    /\ get_params' = NoHistoryLength
    /\ get_returned' = <<>>
    /\ get_called' = FALSE

\* _handle_tasks_get on a stored task: the history of the task it returns
TasksGetHistory(params) ==
    /\ get_params' = params
    /\ get_returned' = ReturnedHistory(get_history, HistoryLength(params))
    /\ get_called' = TRUE
    /\ UNCHANGED get_history

(***************************************************************************)
(* The triagev2 agent: A2ATriageAgent of triagev2.py behind the threaded    *)
(* Flask server of A2ATriageServer                                          *)
(***************************************************************************)
VARIABLES
    v2_tasks,     \* self.tasks: task id -> A2ATask
    v2_contexts,  \* self.contexts: contextId -> list of task ids
    v2_next,      \* the ids A2ATask() has generated so far are 1..v2_next-1
    v2_thr,       \* bag of the handle_message_send calls waiting for the AI
    v2_resp       \* the result returned by the last step

v2Vars == <<v2_tasks, v2_contexts, v2_next, v2_thr, v2_resp>>

\* number of tasks the triagev2 agent creates
MaxV2Tasks == 1
\* number of message/send requests the triagev2 agent accepts
MaxV2Sends == 2
\* number of message/send requests the triagev2 agent works on at the same time
MaxV2InFlight == 1

\* JSON-RPC code of _create_error_response(-32603, "Internal server error")
INTERNAL_ERROR == -32603

\* stages of A2ATask.current_stage
Stages == <<"initial", "generic", "specific", "assessment", "complete">>

\* text of the status message handle_tasks_cancel builds
CanceledText == "Task has been canceled."

\* an A2AMessage: role, taskId, contextId and the text of its part; the text
\* of a user's message or of a reply of the triage is "said"
V2Msg(role, task_id, context_id) ==
    [role |-> role, taskId |-> task_id, contextId |-> context_id,
     text |-> IF role = "none" THEN "" ELSE "said"]
NoV2Msg == V2Msg("none", NoId, NoId)

\* A2ATask(): a fresh id, a fresh contextId, status Submitted, no history.
\* symptoms, symptom_duration and severity_score say whether the field holds a
\* truthy value; questions is the length of metadata["current_questions"]
\* (0: not set); stray says whether setattr has given the task an attribute
\* that is no field of the dataclass.
A2ATask(id) ==
    [id |-> id, contextId |-> GenCtx(id), state |-> SUBMITTED, message |-> NoV2Msg,
     history |-> <<>>, artifacts |-> 0, current_stage |-> "initial",
     symptoms |-> FALSE, symptom_duration |-> FALSE, severity_score |-> FALSE,
     questions |-> 0, question_index |-> 0, stray |-> FALSE]

NoV2Task == [A2ATask(NoId) EXCEPT !.contextId = NoId, !.state = UNKNOWN]

\* what a step returns: an error, a task (_task_to_dict) or a message
\* (_message_to_dict), with the request it answers
V2Response(method, req, code, kind, task, message) ==
    [method |-> method, taskId |-> req, hl |-> 0, code |-> code, kind |-> kind,
     task |-> task, message |-> message]
NoV2Resp == V2Response("none", NoId, RESULT_OK, "none", NoV2Task, NoV2Msg)
V2Error(method, req, code) == V2Response(method, req, code, "error", NoV2Task, NoV2Msg)

V2Init ==
    /\ v2_tasks = <<>>
    /\ v2_contexts = <<>>
    /\ v2_next = 1
    /\ v2_thr = EmptyBag
    /\ v2_resp = NoV2Resp

\* what the AI brings back to one message/send: kind "raise_early" is a reply
\* whose "extract" is no object (the loop over its items raises before the task
\* is touched), "raise_late" one whose urgency_level is no string (the final
\* assessment raises after it has set the stage); medical, symptoms, extract,
\* questions, high and recommendation are the values the stages read
Ai(kind, medical, symptoms, extract, questions, high, recommendation) ==
    [kind |-> kind, medical |-> medical, symptoms |-> symptoms, extract |-> extract,
     questions |-> questions, high |-> high, recommendation |-> recommendation]
AiInputs ==
    {Ai("ok", TRUE, TRUE, {}, 2, FALSE, TRUE),
     Ai("ok", FALSE, FALSE, {}, 0, FALSE, TRUE),
     Ai("ok", TRUE, FALSE, {"symptom_duration", "severity_score"}, 0, FALSE, TRUE),
     Ai("ok", TRUE, TRUE, {"symptom_duration", "severity_score"}, 2, TRUE, TRUE),
     Ai("ok", TRUE, TRUE, {"stray"}, 2, FALSE, FALSE),
     Ai("ok", TRUE, TRUE, {"current_stage"}, 2, FALSE, TRUE),
     Ai("raise_early", TRUE, TRUE, {}, 2, FALSE, TRUE),
     Ai("raise_late", TRUE, FALSE, {"symptom_duration", "severity_score"}, 0, FALSE,
        TRUE)}

\* the result dict of _process_triage_message, or an exception
V2Result(task, raised, complete, emergency, recommendation) ==
    [task |-> task, raised |-> raised, complete |-> complete,
     emergency |-> emergency, recommendation |-> recommendation]
Plain(task) == V2Result(task, FALSE, FALSE, FALSE, FALSE)
Raised(task) == V2Result(task, TRUE, FALSE, FALSE, FALSE)

\* for key, value in ai_result["extract"].items(): setattr(task, key, value).
\* An extract with the key current_stage carries the value "initial".
ApplyExtract(task, extract) ==
    [task EXCEPT !.symptom_duration = @ \/ "symptom_duration" \in extract,
                 !.severity_score = @ \/ "severity_score" \in extract,
                 !.stray = @ \/ "stray" \in extract,
                 !.current_stage = IF "current_stage" \in extract
                                   THEN "initial" ELSE @]

\* _process_final_assessment
ProcessFinalAssessment(task, ai) ==
    LET done == [task EXCEPT !.current_stage = "complete"] IN
    IF ai.kind = "raise_late" THEN Raised(done)
    ELSE IF ai.high THEN V2Result(done, FALSE, TRUE, TRUE, TRUE)
    ELSE V2Result(done, FALSE, TRUE, FALSE, ai.recommendation)

\* _start_dynamic_questions
StartDynamicQuestions(task, ai) ==
    IF ~task.symptoms \/ ai.questions = 0
    THEN ProcessFinalAssessment([task EXCEPT !.current_stage = "assessment"], ai)
    ELSE Plain([task EXCEPT !.questions = ai.questions, !.question_index = 0])

\* _process_initial_assessment
ProcessInitialAssessment(task, ai) ==
    IF ai.kind = "raise_early" THEN Raised(task)
    ELSE LET t1 == [ApplyExtract(task, ai.extract) EXCEPT !.symptoms = ai.symptoms] IN
         IF ~ai.medical
         THEN V2Result([t1 EXCEPT !.current_stage = "complete"], FALSE, TRUE, FALSE, FALSE)
         ELSE Plain([t1 EXCEPT !.current_stage = "generic"])

\* _process_generic_questions
ProcessGenericQuestions(task, ai) ==
    IF ai.kind = "raise_early" THEN Raised(task)
    ELSE LET t1 == ApplyExtract(task, ai.extract) IN
         IF ~t1.symptom_duration \/ ~t1.severity_score
         THEN Plain(t1)
         ELSE StartDynamicQuestions([t1 EXCEPT !.current_stage = "specific"], ai)

\* _process_specific_questions
ProcessSpecificQuestions(task, ai) ==
    IF task.questions = 0
    THEN ProcessFinalAssessment([task EXCEPT !.current_stage = "assessment"], ai)
    ELSE LET next_index == task.question_index + 1
             t1 == [task EXCEPT !.question_index = next_index]
         IN IF next_index < task.questions
            THEN Plain(t1)
            ELSE Plain([t1 EXCEPT !.current_stage = "assessment"])

\* _process_triage_message
ProcessTriageMessage(task, ai) ==
    CASE task.current_stage = "initial" -> ProcessInitialAssessment(task, ai)
      [] task.current_stage = "generic" -> ProcessGenericQuestions(task, ai)
      [] task.current_stage = "specific" -> ProcessSpecificQuestions(task, ai)
      [] task.current_stage = "assessment" -> ProcessFinalAssessment(task, ai)
      [] OTHER -> V2Result(task, FALSE, TRUE, FALSE, FALSE)

V2TaskIdInputs == {NoId, StrayId} \cup DOMAIN v2_tasks
V2HistoryLengthInputs == {DefaultHistoryLength, 1}

\* the user messages of all histories: the message/send requests accepted so far
RECURSIVE V2SumUsers(_)
V2SumUsers(ids) ==
    IF ids = {} THEN 0
    ELSE LET t == CHOOSE x \in ids : TRUE
         IN UserCount(v2_tasks[t].history) + V2SumUsers(ids \ {t})

V2SendAllowed ==
    /\ V2SumUsers(DOMAIN v2_tasks) < MaxV2Sends
    /\ BagCardinality(v2_thr) < MaxV2InFlight

\* the locals of a handle_message_send that waits for the AI: the taskId the
\* request carried, task_id and context_id
V2Blocked(req, task_id, context_id) ==
    [req |-> req, task_id |-> task_id, context_id |-> context_id]

\* handle_message_send with a part that is no dict: _convert_part raises
V2SendMalformed ==
    /\ v2_resp' = V2Error("message/send", NoId, INTERNAL_ERROR)
    /\ UNCHANGED <<v2_tasks, v2_contexts, v2_next, v2_thr>>

\* a task creation that gives the task the contextId the message carries
V2CreateTaskWithContext(context_id) ==
    [A2ATask(v2_next) EXCEPT
        !.contextId = IF context_id = NoId THEN @ ELSE context_id]

\* task = A2ATask()
V2CreateTask(context_id) == A2ATask(v2_next)

\* handle_message_send up to the call of the AI: get or create the task, track
\* the context, append the message to the history
V2SendBegin(req, msg_context_id) ==
    IF req # NoId /\ req \in DOMAIN v2_tasks
    THEN IF v2_tasks[req].state \in TerminalChecked
         THEN /\ v2_resp' = V2Error("message/send", req, TASK_TERMINAL)
              /\ UNCHANGED <<v2_tasks, v2_contexts, v2_next, v2_thr>>
         ELSE /\ V2SendAllowed
              /\ v2_tasks' = [v2_tasks EXCEPT ![req].history =
                                 Append(@, V2Msg("user", req, msg_context_id))]
              /\ v2_thr' = v2_thr (+) SetToBag({V2Blocked(req, req, msg_context_id)})
              /\ v2_resp' = NoV2Resp
              /\ UNCHANGED <<v2_contexts, v2_next>>
    ELSE LET task == V2CreateTask(msg_context_id)
             task_id == task.id
             context_id == IF msg_context_id = NoId THEN task.contextId
                           ELSE msg_context_id
             a2a_message == V2Msg("user", task_id, context_id)
         IN /\ v2_next <= MaxV2Tasks
            /\ V2SendAllowed
            /\ v2_next' = v2_next + 1
            /\ v2_tasks' = Put(v2_tasks, task_id,
                               [task EXCEPT !.history = Append(@, a2a_message)])
            /\ v2_contexts' = Put(v2_contexts, context_id,
                                  IF context_id \in DOMAIN v2_contexts
                                  THEN Append(v2_contexts[context_id], task_id)
                                  ELSE <<task_id>>)
            /\ v2_thr' = v2_thr (+) SetToBag({V2Blocked(req, task_id, context_id)})
            /\ v2_resp' = NoV2Resp

\* handle_message_send after the AI has answered: _process_triage_message,
\* update of the status, the response message, the result; blocking is
\* configuration["blocking"] of the request, read when the result is built
V2SendReturn(r, ai, blocking) ==
    LET task == v2_tasks[r.task_id]
        result == ProcessTriageMessage(task, ai)
        response_message == V2Msg("agent", r.task_id, r.context_id)
        updated == [result.task EXCEPT
                       !.state = IF result.complete \/ result.emergency
                                 THEN COMPLETED ELSE INPUT_REQUIRED,
                       !.artifacts = IF result.complete /\ result.recommendation
                                     THEN @ + 1 ELSE @,
                       !.history = Append(@, response_message),
                       !.message = response_message]
    IN /\ v2_thr' = v2_thr (-) SetToBag({r})
       /\ IF result.raised
          THEN /\ v2_tasks' = [v2_tasks EXCEPT ![r.task_id] = result.task]
               /\ v2_resp' = V2Error("message/send", r.req, INTERNAL_ERROR)
          ELSE /\ v2_tasks' = [v2_tasks EXCEPT ![r.task_id] = updated]
               /\ v2_resp' = IF blocking \/ updated.state = COMPLETED
                             THEN V2Response("message/send", r.req, RESULT_OK, "task",
                                             updated, NoV2Msg)
                             ELSE V2Response("message/send", r.req, RESULT_OK, "message",
                                             NoV2Task, response_message)
       /\ UNCHANGED <<v2_contexts, v2_next>>

\* a handle_tasks_get that copies the task whatever attributes it has
V2TasksGetCopies(task_id, history_length) ==
    /\ IF task_id = NoId \/ task_id \notin DOMAIN v2_tasks
       THEN v2_resp' = [V2Error("tasks/get", task_id, TASK_NOT_FOUND)
                           EXCEPT !.hl = history_length]
       ELSE LET task == v2_tasks[task_id]
                task_copy == [task EXCEPT !.history = ReturnedHistory(@, history_length)]
            IN v2_resp' = [V2Response("tasks/get", task_id, RESULT_OK, "task", task_copy,
                                      NoV2Msg) EXCEPT !.hl = history_length]
    /\ UNCHANGED <<v2_tasks, v2_contexts, v2_next, v2_thr>>

\* handle_tasks_get: the copy A2ATask(**task.__dict__), made when the history
\* is to be cut, raises when the task has an attribute that is no field
V2TasksGet(task_id, history_length) ==
    /\ IF task_id = NoId \/ task_id \notin DOMAIN v2_tasks
       THEN v2_resp' = [V2Error("tasks/get", task_id, TASK_NOT_FOUND)
                           EXCEPT !.hl = history_length]
       ELSE LET task == v2_tasks[task_id]
                task_copy == [task EXCEPT !.history = ReturnedHistory(@, history_length)]
            IN IF history_length # 0 /\ Len(task.history) > history_length /\ task.stray
               THEN v2_resp' = [V2Error("tasks/get", task_id, INTERNAL_ERROR)
                                   EXCEPT !.hl = history_length]
               ELSE v2_resp' = [V2Response("tasks/get", task_id, RESULT_OK, "task",
                                           task_copy, NoV2Msg)
                                   EXCEPT !.hl = history_length]
    /\ UNCHANGED <<v2_tasks, v2_contexts, v2_next, v2_thr>>

\* handle_tasks_cancel
V2TasksCancel(task_id) ==
    IF task_id = NoId \/ task_id \notin DOMAIN v2_tasks
    THEN /\ v2_resp' = V2Error("tasks/cancel", task_id, TASK_NOT_FOUND)
         /\ UNCHANGED <<v2_tasks, v2_contexts, v2_next, v2_thr>>
    ELSE IF v2_tasks[task_id].state \in TerminalChecked
    THEN /\ v2_resp' = V2Error("tasks/cancel", task_id, TASK_TERMINAL)
         /\ UNCHANGED <<v2_tasks, v2_contexts, v2_next, v2_thr>>
    ELSE LET canceled == [v2_tasks[task_id] EXCEPT
                             !.state = CANCELED,
                             !.message = [V2Msg("agent", task_id,
                                                v2_tasks[task_id].contextId)
                                             EXCEPT !.text = CanceledText]]
         IN /\ v2_tasks' = [v2_tasks EXCEPT ![task_id] = canceled]
            /\ v2_resp' = V2Response("tasks/cancel", task_id, RESULT_OK, "task",
                                     canceled, NoV2Msg)
            /\ UNCHANGED <<v2_contexts, v2_next, v2_thr>>

----------------------------------------------------------------------------
(* Session.get_completion_percentage of va_mcp.py, on the data dict of one
   session.  A value of the dict is modelled by what .get() and truthiness
   see of it: the key is missing, the value is the empty string, or the value
   is a non-empty string. *)

VARIABLES
    pct_data,       \* Session.data restricted to the required fields
    pct_result,     \* the value returned by the last call, in tenths of a percent
    pct_op          \* the last operation on the session: "none", "update", "call"

pctVars == <<pct_data, pct_result, pct_op>>

Absent == "absent"
Empty == "empty"
Text == "text"

\* the literal list at the top of get_completion_percentage
required_fields ==
    <<"name", "phone", "reason", "date_of_birth", "state", "provider_name",
      "preferred_date", "preferred_time">>

RequiredFieldSet == {required_fields[i] : i \in 1..Len(required_fields)}

\* the values an extract of the language model can hold for a field
ExtractValues == {Empty, Text}

\* no call has returned yet
NoResult == -1

\* the truth value Python gives to data.get(field)
Truthy(v) == v = Text

\* sum(1 for field in required_fields if self.data.get(field)), field by field
RECURSIVE CompletedUpTo(_, _)
CompletedUpTo(data, n) ==
    IF n = 0 THEN 0
    ELSE CompletedUpTo(data, n - 1) + (IF Truthy(data[required_fields[n]]) THEN 1 ELSE 0)

\* a percentage that counts the keys present in the dict, whatever their value
get_completion_percentage_of_keys(data) ==
    (Cardinality({f \in RequiredFieldSet : data[f] # Absent}) * 1000) \div Len(required_fields)

\* (completed / len(required_fields)) * 100 as a number of tenths of a
\* percent: the float division by 8 and the product by 100 are exact
get_completion_percentage(data) ==
    (CompletedUpTo(data, Len(required_fields)) * 1000) \div Len(required_fields)

PctInit ==
    /\ pct_data = [f \in RequiredFieldSet |-> Absent]
    /\ pct_result = NoResult
    /\ pct_op = "none"

\* self.session.data.update(llm_result["extract"]) with one field in the extract
SessionDataUpdate(field, value) ==
    /\ pct_data' = [pct_data EXCEPT ![field] = value]
    /\ pct_op' = "update"
    /\ UNCHANGED pct_result

\* a call that answers with the value of an earlier call when there is one
GetCompletionPercentageCached ==
    /\ pct_result' = IF pct_result # NoResult THEN pct_result
                     ELSE get_completion_percentage(pct_data)
    /\ pct_op' = "call"
    /\ UNCHANGED pct_data

\* one call of session.get_completion_percentage()
GetCompletionPercentage ==
    /\ pct_result' = get_completion_percentage(pct_data)
    /\ pct_op' = "call"
    /\ UNCHANGED pct_data

(***************************************************************************)
(* Voice agent with the HTTP triage session: va_http_mcp.py                *)
(* The agent is configured with a triage client (self.triage is set).      *)
(***************************************************************************)
VARIABLES
    h_turn,             \* turn of HealthcareAgent.start
    h_errors,           \* errors of HealthcareAgent.start
    h_data,             \* session.data: for each key, missing, "" or a non-empty value
    h_triage_complete,  \* session.triage_complete
    h_triage_entries,   \* number of times run_triage has been entered
    h_pc,               \* "loop", "ended" (session saved) or "crashed" (start() raised)
    h_last              \* what the last turn did: its kind, the calls it made,
                        \* how run_triage ended

httpVars == <<h_turn, h_errors, h_data, h_triage_complete, h_triage_entries,
              h_pc, h_last>>

\* number of turns of the HTTP-triage voice agent the model explores
MaxHttpTurn == 3

\* the keys of session.data the insurance calls read
HttpFields == DiscoveryRequired \cup EligibilityRequired

\* llm_result["extract"]: the values the LLM gives to some of the keys
HttpExtractInputs ==
    { [f \in {} |-> Text],
      [f \in {"name", "date_of_birth", "state"} |-> Text],
      [f \in {"name", "date_of_birth", "state"} |-> IF f = "state" THEN Empty ELSE Text],
      [f \in {"provider_name"} |-> Text] }

\* how run_triage ends: get_summary succeeded, get_summary answered without
\* success, or a call raised and the handler of run_triage caught it
HttpTriageOutcomes == {"summary", "summary_failed", "exception"}

\* insurance.eligibility: success, no success, or an exception
HttpEligibilityResults == {"success", "fail", "raise"}

HttpTurn(kind, calls, triage) == [kind |-> kind, calls |-> calls, triage |-> triage]

HttpInit ==
    /\ h_turn = 0
    /\ h_errors = 0
    /\ h_data = [f \in HttpFields |-> Absent]
    /\ h_triage_complete = FALSE
    /\ h_triage_entries = 0
    /\ h_pc = "loop"
    /\ h_last = HttpTurn("none", {}, "none")

\* while turn < 50 and errors < 3, within the turns the model explores
HttpTurnAllowed ==
    h_pc = "loop" /\ h_turn < TurnLimit /\ h_errors < ErrorLimit /\ h_turn < MaxHttpTurn

\* self.session.data.update(llm_result["extract"])
HttpUpdate(data, extract) ==
    [f \in HttpFields |-> IF f \in DOMAIN extract THEN extract[f] ELSE data[f]]

\* a test that enters run_triage only when no attempt has been made yet
HttpShouldRunTriageOnce(need_triage) ==
    need_triage /\ ~h_triage_complete /\ h_triage_entries < TriageAttemptLimit

\* llm_result.get("need_triage") and not self.session.triage_complete
HttpShouldRunTriage(need_triage) == need_triage /\ ~h_triage_complete

\* a readiness test that asks for a non-empty value under every key
HttpAllNonEmpty(required, data) == \A k \in required : data[k] = Text

\* all(k in self.session.data for k in required_fields)
HttpAllPresent(required, data) == \A k \in required : data[k] # Absent

\* session.data after the discovery branch: on success payer and member_id are
\* stored, either of which may be the empty string
HttpAfterDiscovery(data, d) ==
    IF d \in {"both", "payer_only", "member_id_only", "neither"}
    THEN [f \in HttpFields |->
             IF f \in DiscoveryProvides
             THEN (IF f \in Found(d) THEN Text ELSE Empty)
             ELSE data[f]]
    ELSE data

\* listen() returned UNCLEAR, TIMEOUT or ERROR
HttpTurnSpeechError ==
    /\ HttpTurnAllowed
    /\ h_turn' = h_turn + 1
    /\ h_errors' = h_errors + 1
    /\ h_last' = HttpTurn("speech_error", {}, "none")
    /\ UNCHANGED <<h_data, h_triage_complete, h_triage_entries, h_pc>>

\* listen() returned an empty string
HttpTurnEmpty ==
    /\ HttpTurnAllowed
    /\ h_turn' = h_turn + 1
    /\ h_last' = HttpTurn("empty", {}, "none")
    /\ UNCHANGED <<h_errors, h_data, h_triage_complete, h_triage_entries, h_pc>>

\* the utterance contains 'bye', 'goodbye', 'end' or 'hang up': break, save
HttpTurnFarewell ==
    /\ HttpTurnAllowed
    /\ h_turn' = h_turn + 1
    /\ h_errors' = 0
    /\ h_last' = HttpTurn("farewell", {}, "none")
    /\ h_pc' = "ended"
    /\ UNCHANGED <<h_data, h_triage_complete, h_triage_entries>>

\* llm.process raises (transport failure, unreadable body): start() ends with
\* the exception
HttpTurnLlmRaises ==
    /\ HttpTurnAllowed
    /\ h_turn' = h_turn + 1
    /\ h_errors' = 0
    /\ h_last' = HttpTurn("crash", {"llm"}, "none")
    /\ h_pc' = "crashed"
    /\ UNCHANGED <<h_data, h_triage_complete, h_triage_entries>>

\* a turn that reaches the LLM result: extraction, run_triage, Discovery,
\* Eligibility, and on done the break and save
HttpTurnMain(extract, need_triage, call_discovery, call_eligibility, done) ==
    /\ HttpTurnAllowed
    /\ h_turn' = h_turn + 1
    /\ h_errors' = 0
    /\ LET data1 == HttpUpdate(h_data, extract)
           tri == HttpShouldRunTriage(need_triage)
           disc == call_discovery /\ HttpAllPresent(DiscoveryRequired, data1)
       IN \E t \in IF tri THEN HttpTriageOutcomes ELSE {"none"} :
          \E d \in IF disc THEN DiscoveryResults ELSE {"skipped"} :
          LET data2 == HttpAfterDiscovery(data1, d)
              elig == d # "raise" /\ call_eligibility
                         /\ HttpAllPresent(EligibilityRequired, data2)
          IN \E e \in IF elig THEN HttpEligibilityResults ELSE {"skipped"} :
             LET crash == d = "raise" \/ e = "raise"
                 calls == {"llm"} \cup (IF tri THEN {"triage"} ELSE {})
                                  \cup (IF disc THEN {"discovery"} ELSE {})
                                  \cup (IF elig THEN {"eligibility"} ELSE {})
             IN /\ h_data' = data2
                /\ h_triage_complete' = (h_triage_complete \/ t = "summary")
                /\ h_triage_entries' = h_triage_entries + (IF tri THEN 1 ELSE 0)
                /\ h_last' = HttpTurn(IF crash THEN "crash" ELSE "main", calls, t)
                /\ h_pc' = IF crash THEN "crashed" ELSE IF done THEN "ended" ELSE "loop"

\* the loop condition fails: session.save()
HttpLoopExit ==
    /\ h_pc = "loop"
    /\ ~(h_turn < TurnLimit /\ h_errors < ErrorLimit)
    /\ h_pc' = "ended"
    /\ h_last' = HttpTurn("exit", {}, "none")
    /\ UNCHANGED <<h_turn, h_errors, h_data, h_triage_complete, h_triage_entries>>

----------------------------------------------------------------------------
vars == <<svcVars, voiceVars, mcpVars, getVars, v2Vars, pctVars, httpVars>>

Init == SvcInit /\ VoiceInit /\ McpInit /\ GetInit /\ V2Init /\ PctInit /\ HttpInit

\* requests to the A2A triage service, handled by the threads of the server
Next ==
    \/ /\ MessageSendInvalid
       /\ UNCHANGED <<voiceVars, mcpVars, getVars, v2Vars, pctVars, httpVars>>
    \/ /\ \E task_id \in TaskIdInputs, context_id \in CtxInputs, text \in Texts :
              HandleMessageSend(task_id, context_id, text)
       /\ UNCHANGED <<voiceVars, mcpVars, getVars, v2Vars, pctVars, httpVars>>
    \/ /\ \E r \in BagToSet(thr), ok \in BOOLEAN : StartTriageReturn(r, ok)
       /\ UNCHANGED <<voiceVars, mcpVars, getVars, v2Vars, pctVars, httpVars>>
    \/ /\ \E r \in BagToSet(thr), result \in TriageResults : SendTriageReturn(r, result)
       /\ UNCHANGED <<voiceVars, mcpVars, getVars, v2Vars, pctVars, httpVars>>
    \/ /\ \E r \in BagToSet(thr), summary \in SummaryResults : SummaryReturn(r, summary)
       /\ UNCHANGED <<voiceVars, mcpVars, getVars, v2Vars, pctVars, httpVars>>
    \/ /\ \E task_id \in TaskIdInputs, history_length \in HistoryLengthInputs :
              HandleTasksGet(task_id, history_length)
       /\ UNCHANGED <<voiceVars, mcpVars, getVars, v2Vars, pctVars, httpVars>>
    \/ /\ \E task_id \in TaskIdInputs : HandleTasksCancel(task_id)
       /\ UNCHANGED <<voiceVars, mcpVars, getVars, v2Vars, pctVars, httpVars>>

Spec == Init /\ [][Next]_vars

\* the turns of HealthcareAgent.start of va_a2a_mcp.py
NextVoice ==
    \/ /\ \E heard \in SpeechErrors : TurnSpeechError(heard)
       /\ UNCHANGED <<svcVars, mcpVars, getVars, v2Vars, pctVars, httpVars>>
    \/ /\ TurnEmpty
       /\ UNCHANGED <<svcVars, mcpVars, getVars, v2Vars, pctVars, httpVars>>
    \/ /\ TurnFarewell
       /\ UNCHANGED <<svcVars, mcpVars, getVars, v2Vars, pctVars, httpVars>>
    \/ /\ \E reply \in TriageReplies : TurnTriage(reply)
       /\ UNCHANGED <<svcVars, mcpVars, getVars, v2Vars, pctVars, httpVars>>
    \/ /\ TurnLlmRaises
       /\ UNCHANGED <<svcVars, mcpVars, getVars, v2Vars, pctVars, httpVars>>
    \/ /\ \E extract \in ExtractInputs, reply \in StartReplies :
              TurnStartTriage(extract, reply)
       /\ UNCHANGED <<svcVars, mcpVars, getVars, v2Vars, pctVars, httpVars>>
    \/ /\ \E extract \in ExtractInputs, call_discovery \in BOOLEAN,
              call_eligibility \in BOOLEAN, response \in BOOLEAN, done \in BOOLEAN :
              TurnMain(extract, call_discovery, call_eligibility, response, done)
       /\ UNCHANGED <<svcVars, mcpVars, getVars, v2Vars, pctVars, httpVars>>
    \/ /\ LoopExit
       /\ UNCHANGED <<svcVars, mcpVars, getVars, v2Vars, pctVars, httpVars>>

SpecVoice == Init /\ [][NextVoice]_vars

\* what the body of an iteration does to the loop once the utterance is
\* accepted: it comes back to the loop condition, it leaves by break
\* (farewell, done), or a call in it raises
BodyOutcomes == {"continue", "break", "raise"}

\* an iteration whose listen() returned UNCLEAR, TIMEOUT or ERROR, seen from
\* the loop: turn += 1, errors += 1, continue
LoopSpeechError ==
    /\ LoopRuns
    /\ turn' = turn + 1
    /\ errors' = errors + 1
    /\ UNCHANGED <<session_data, triage_complete, triage_attempts, in_triage_mode,
                   triage_task_id, vpc, files, last, discovery_calls>>

\* an iteration whose listen() returned an empty string: turn += 1, continue
LoopEmpty ==
    /\ LoopRuns
    /\ turn' = turn + 1
    /\ UNCHANGED <<errors, session_data, triage_complete, triage_attempts,
                   in_triage_mode, triage_task_id, vpc, files, last, discovery_calls>>

\* an iteration with an utterance: turn += 1, errors = 0, then the body; a
\* break goes on to save_to_file
LoopBody(outcome) ==
    /\ LoopRuns
    /\ turn' = turn + 1
    /\ errors' = 0
    /\ vpc' = CASE outcome = "continue" -> "loop"
                [] outcome = "break" -> "ended"
                [] OTHER -> "crashed"
    /\ files' = IF outcome = "break" THEN files + 1 ELSE files
    /\ UNCHANGED <<session_data, triage_complete, triage_attempts, in_triage_mode,
                   triage_task_id, last, discovery_calls>>

\* the turn loop of HealthcareAgent.start of va_a2a_mcp.py by its counters
\* alone, up to the limits of the loop condition
NextVoiceLoop ==
    \/ /\ LoopSpeechError
       /\ UNCHANGED <<svcVars, mcpVars, getVars, v2Vars, pctVars, httpVars>>
    \/ /\ LoopEmpty
       /\ UNCHANGED <<svcVars, mcpVars, getVars, v2Vars, pctVars, httpVars>>
    \/ /\ \E outcome \in BodyOutcomes : LoopBody(outcome)
       /\ UNCHANGED <<svcVars, mcpVars, getVars, v2Vars, pctVars, httpVars>>
    \/ /\ LoopExit
       /\ UNCHANGED <<svcVars, mcpVars, getVars, v2Vars, pctVars, httpVars>>

\* every listen() and every call of an iteration returns: an iteration that
\* has begun is finished, and the loop condition is evaluated again
SpecVoiceLoop == Init /\ [][NextVoiceLoop]_vars /\ WF_vars(NextVoiceLoop)

\* the steps of start_intelligent_conversation of va_mcp.py
NextVaMcp ==
    \/ /\ \E heard \in McpSpeechIssues : McpSpeechIssue(heard)
       /\ UNCHANGED <<svcVars, voiceVars, getVars, v2Vars, pctVars, httpVars>>
    \/ /\ McpNoInput
       /\ UNCHANGED <<svcVars, voiceVars, getVars, v2Vars, pctVars, httpVars>>
    \/ /\ McpFarewell
       /\ UNCHANGED <<svcVars, voiceVars, getVars, v2Vars, pctVars, httpVars>>
    \/ /\ \E extract \in McpExtractInputs, code \in McpCodeInputs, done \in BOOLEAN :
              McpTurn(extract, code, done)
       /\ UNCHANGED <<svcVars, voiceVars, getVars, v2Vars, pctVars, httpVars>>
    \/ /\ \E extract \in McpExtractInputs, code \in McpCodeInputs :
              McpTurnException(extract, code)
       /\ UNCHANGED <<svcVars, voiceVars, getVars, v2Vars, pctVars, httpVars>>
    \/ /\ McpLoopExit
       /\ UNCHANGED <<svcVars, voiceVars, getVars, v2Vars, pctVars, httpVars>>
    \/ /\ McpSave
       /\ UNCHANGED <<svcVars, voiceVars, getVars, v2Vars, pctVars, httpVars>>
    \/ /\ McpReturn
       /\ UNCHANGED <<svcVars, voiceVars, getVars, v2Vars, pctVars, httpVars>>
    \/ /\ McpKeyboardInterrupt
       /\ UNCHANGED <<svcVars, voiceVars, getVars, v2Vars, pctVars, httpVars>>

SpecVaMcp == Init /\ [][NextVaMcp]_vars

\* the messages appended to one stored task and the tasks/get requests on it
NextGet ==
    \/ /\ HistoryAppend
       /\ UNCHANGED <<svcVars, voiceVars, mcpVars, v2Vars, pctVars, httpVars>>
    \/ /\ \E params \in GetParamInputs : TasksGetHistory(params)
       /\ UNCHANGED <<svcVars, voiceVars, mcpVars, v2Vars, pctVars, httpVars>>

SpecGet == Init /\ [][NextGet]_vars

\* requests to the triagev2 agent, handled by the threads of its server
NextTriageV2 ==
    \/ /\ V2SendMalformed
       /\ UNCHANGED <<svcVars, voiceVars, mcpVars, getVars, pctVars, httpVars>>
    \/ /\ \E req \in V2TaskIdInputs, context_id \in CtxInputs :
              V2SendBegin(req, context_id)
       /\ UNCHANGED <<svcVars, voiceVars, mcpVars, getVars, pctVars, httpVars>>
    \/ /\ \E r \in BagToSet(v2_thr), ai \in AiInputs, blocking \in BOOLEAN :
              V2SendReturn(r, ai, blocking)
       /\ UNCHANGED <<svcVars, voiceVars, mcpVars, getVars, pctVars, httpVars>>
    \/ /\ \E task_id \in V2TaskIdInputs, history_length \in V2HistoryLengthInputs :
              V2TasksGet(task_id, history_length)
       /\ UNCHANGED <<svcVars, voiceVars, mcpVars, getVars, pctVars, httpVars>>
    \/ /\ \E task_id \in V2TaskIdInputs : V2TasksCancel(task_id)
       /\ UNCHANGED <<svcVars, voiceVars, mcpVars, getVars, pctVars, httpVars>>

SpecTriageV2 == Init /\ [][NextTriageV2]_vars

\* the updates of one session's data and the calls of get_completion_percentage
NextCompletion ==
    \/ /\ \E field \in RequiredFieldSet, value \in ExtractValues :
              SessionDataUpdate(field, value)
       /\ UNCHANGED <<svcVars, voiceVars, mcpVars, getVars, v2Vars, httpVars>>
    \/ /\ GetCompletionPercentage
       /\ UNCHANGED <<svcVars, voiceVars, mcpVars, getVars, v2Vars, httpVars>>

SpecCompletion == Init /\ [][NextCompletion]_vars

\* the turns of the HTTP-triage voice agent
NextHttp ==
    \/ /\ HttpTurnSpeechError
       /\ UNCHANGED <<svcVars, voiceVars, mcpVars, getVars, v2Vars, pctVars>>
    \/ /\ HttpTurnEmpty
       /\ UNCHANGED <<svcVars, voiceVars, mcpVars, getVars, v2Vars, pctVars>>
    \/ /\ HttpTurnFarewell
       /\ UNCHANGED <<svcVars, voiceVars, mcpVars, getVars, v2Vars, pctVars>>
    \/ /\ HttpTurnLlmRaises
       /\ UNCHANGED <<svcVars, voiceVars, mcpVars, getVars, v2Vars, pctVars>>
    \/ /\ \E extract \in HttpExtractInputs,
             need_triage, call_discovery, call_eligibility, done \in BOOLEAN :
              HttpTurnMain(extract, need_triage, call_discovery, call_eligibility, done)
       /\ UNCHANGED <<svcVars, voiceVars, mcpVars, getVars, v2Vars, pctVars>>
    \/ /\ HttpLoopExit
       /\ UNCHANGED <<svcVars, voiceVars, mcpVars, getVars, v2Vars, pctVars>>

SpecHttp == Init /\ [][NextHttp]_vars

----------------------------------------------------------------------------
(* Properties of the A2A triage service *)

\* the states the specification calls terminal
Terminal == {COMPLETED, FAILED, CANCELED, REJECTED}

\* this step starts a handler that goes on to work on task t
StartsWorkOn(t) ==
    \E r \in BagToSet(thr') :
        /\ r.tid = t
        /\ CopiesIn(r, thr') > CopiesIn(r, thr)
        /\ BagCardinality(thr') > BagCardinality(thr)

\* this step answers a message/send or a tasks/cancel that names task t, the
\* whole request being handled in the step
AnswersAtOnce(t) ==
    /\ thr' = thr
    /\ resp'.method \in {"message/send", "tasks/cancel"}
    /\ resp'.taskId = t

\* C1: a message/send (continue) or a tasks/cancel that finds its task in a
\* terminal state returns -32002 and leaves the task's state, history and
\* artifacts as they were; and after one successful cancel of a task no later
\* cancel of that task succeeds.
C1_TerminalTaskRejects ==
    [][ /\ \A t \in DOMAIN tasks :
              tasks[t].state \in Terminal =>
                  /\ ~StartsWorkOn(t)
                  /\ AnswersAtOnce(t) =>
                        /\ resp'.code = TASK_TERMINAL
                        /\ tasks'[t] = tasks[t]
        /\ \A t \in cancelled :
              ~(/\ resp'.method = "tasks/cancel"
                /\ resp'.taskId = t
                /\ resp'.code = RESULT_OK
                /\ tasks[t].state # tasks'[t].state) ]_vars

\* the edges of the lifecycle graph
LifecycleEdges ==
    {<<SUBMITTED, INPUT_REQUIRED>>, <<SUBMITTED, FAILED>>,
     <<INPUT_REQUIRED, INPUT_REQUIRED>>, <<INPUT_REQUIRED, COMPLETED>>,
     <<INPUT_REQUIRED, FAILED>>, <<INPUT_REQUIRED, CANCELED>>}

\* C2: every change of a task's state is an edge of the lifecycle graph (a task
\* is Submitted when it is built and is stored in the state its creation ends
\* in); no edge leaves Completed, Canceled, Failed or Rejected.
C2_LifecycleEdgesOnly ==
    [][ \A t \in DOMAIN tasks' :
          IF t \in DOMAIN tasks
          THEN tasks'[t].state # tasks[t].state =>
                  <<tasks[t].state, tasks'[t].state>> \in LifecycleEdges
          ELSE <<SUBMITTED, tasks'[t].state>> \in LifecycleEdges ]_vars

\* C3: once a tasks/cancel has set a task to Canceled, a message/send that was
\* in flight for it does not move it to another state and adds no agent
\* message and no artifact to it.
C3_CancelWinsRace ==
    [][ \A t \in DOMAIN tasks :
          tasks[t].state = CANCELED =>
              /\ tasks'[t].state = CANCELED
              /\ tasks'[t].history = tasks[t].history
              /\ tasks'[t].artifacts = tasks[t].artifacts ]_vars

\* C4: a stored task's history only grows by appending at the end; a tasks/get
\* with a history limit cuts only the copy it returns.
C4_HistoryAppendOnly ==
    [][ \A t \in DOMAIN tasks :
          /\ t \in DOMAIN tasks'
          /\ IsPrefix(tasks[t].history, tasks'[t].history) ]_vars

\* a tasks/get has just returned fewer messages than the task's history holds
C4_Witness ==
    /\ resp.method = "tasks/get"
    /\ resp.code = RESULT_OK
    /\ resp.taskId \in DOMAIN tasks
    /\ Len(resp.result.history) < Len(tasks[resp.taskId].history)
    /\ Len(resp.result.history) = resp.hl

\* this step answers a message/send whose taskId the service does not track
AnswersUnknownSend ==
    /\ resp'.method = "message/send"
    /\ resp'.taskId # NoId
    /\ resp'.taskId \notin DOMAIN tasks
    /\ BagCardinality(thr') < BagCardinality(thr) \/ thr' = thr

C6_CreateOrContinue ==
    [][ /\ (resp'.method = "message/send" /\ resp'.code = RESULT_OK
             /\ resp'.taskId \notin DOMAIN tasks) =>
              LET id == resp'.result.id IN
              /\ id \notin DOMAIN tasks \cup {NoId, resp'.taskId}
              /\ DOMAIN tasks' = DOMAIN tasks \cup {id}
              /\ tasks'[id].history[1] \in {UserMsg(t) : t \in Texts}
              /\ \A t \in DOMAIN tasks : tasks'[t] = tasks[t]
        /\ (resp'.method = "message/send" /\ resp'.taskId \in DOMAIN tasks) =>
              /\ DOMAIN tasks' = DOMAIN tasks
              /\ resp'.code = RESULT_OK =>
                    /\ resp'.result.id = resp'.taskId
                    /\ resp'.result.contextId = tasks[resp'.taskId].contextId
                    /\ \A t \in DOMAIN tasks \ {resp'.taskId} : tasks'[t] = tasks[t]
        /\ \A t \in DOMAIN tasks : StartsWorkOn(t) => DOMAIN tasks' = DOMAIN tasks
        /\ DOMAIN tasks' # DOMAIN tasks =>
              resp'.method = "message/send" /\ resp'.taskId \notin DOMAIN tasks ]_vars

\* two tasks have been created and a message/send naming the second one has
\* just returned that task
C6_Witness ==
    /\ DOMAIN tasks = {1, 2}
    /\ resp.method = "message/send"
    /\ resp.taskId = 2
    /\ resp.code = RESULT_OK
    /\ resp.result.id = 2
    /\ Len(tasks[2].history) >= 4

----------------------------------------------------------------------------
(* Properties of the voice agent of va_a2a_mcp.py *)

\* this step is a turn of the loop
IsTurn == turn' = turn + 1

TriageCallFailed == {"none", "malformed"}

\* C8: if the triage call fails in the middle of the active sub-dialog, then at
\* the end of that turn the sub-dialog is no longer active, the loop goes on in
\* the main flow, exactly one assistant message, the fallback, was appended in
\* the turn; and once triage is complete it is never started again.
C8_TriageFailureFallsBack ==
    [][ /\ (in_triage_mode /\ IsTurn /\ last'.kind = "triage"
             /\ last'.reply \in TriageCallFailed) =>
              /\ ~in_triage_mode'
              /\ triage_complete'
              /\ last'.said = <<"fallback">>
              /\ vpc' = "loop"
        /\ triage_complete =>
              /\ triage_complete'
              /\ ~in_triage_mode'
              /\ triage_attempts' = triage_attempts
              /\ IsTurn => "triage" \notin last'.calls ]_vars

\* a triage call of the sub-dialog has just failed
C8_Witness ==
    /\ last.kind = "triage"
    /\ last.reply = "none"
    /\ last.said = <<"fallback">>
    /\ ~in_triage_mode
    /\ triage_complete
    /\ triage_attempts = 1

\* C9: Discovery is called once per session: after a Discovery call has been
\* made, no later turn calls Discovery again.
C9_DiscoveryOnce ==
    [][ discovery_calls >= 1 => discovery_calls' = discovery_calls ]_vars

----------------------------------------------------------------------------
(* Properties of the voice agent of va_mcp.py *)

\* C10: when consecutive_errors reaches 3 the loop takes no further turn, the
\* closing sequence runs, and when the session has ended exactly one session
\* record has been written.
C10_ErrorExhaustionClosesOnce ==
    [][ /\ consecutive_errors = MaxConsecutiveErrors =>
              /\ turn_number' = turn_number
              /\ consecutive_errors' = consecutive_errors
        /\ (consecutive_errors' = MaxConsecutiveErrors /\ mpc' = "ended") =>
              /\ end_calls' >= 1
              /\ saves' = 1 ]_vars

\* C11: at most one session record is written per session: however the session
\* ends (farewell, done, error exhaustion, manual interruption, an error in the
\* closing sequence), session.save() runs no more than once.
C11_SaveAtMostOnce == saves <= 1

----------------------------------------------------------------------------
(* Further properties of the A2A triage service *)

\* C12: tasks/get is read-only: a tasks/get, with or without a history limit,
\* leaves every stored task (state, history, artifacts, metadata) and the
\* handlers in flight as they were, and two tasks/get of the same task with the
\* same limit and no other request in between return the same result.
C12_TasksGetReadOnly ==
    [][ resp'.method = "tasks/get" =>
            /\ tasks' = tasks
            /\ thr' = thr
            /\ nextId' = nextId
            /\ (resp.method = "tasks/get" /\ resp.taskId = resp'.taskId
                 /\ resp.hl = resp'.hl) => resp' = resp ]_vars

\* a tasks/get with limit 1 has just returned a completed task that holds an
\* artifact and a history of four messages or more
C12_Witness ==
    /\ resp.method = "tasks/get"
    /\ resp.code = RESULT_OK
    /\ resp.hl = 1
    /\ Len(resp.result.history) = 1
    /\ resp.taskId \in DOMAIN tasks
    /\ tasks[resp.taskId].state = COMPLETED
    /\ tasks[resp.taskId].artifacts # <<>>
    /\ Len(tasks[resp.taskId].history) >= 4

\* a handler is blocked in an external call on behalf of task t
InFlight(t) == \E r \in BagToSet(thr) : r.tid = t

\* h alternates user, agent, user, agent, ...; a trailing unanswered user
\* message only in a task that is Failed
Alternates(h, state) ==
    /\ \A i \in 1..Len(h) : h[i].role = (IF i % 2 = 1 THEN "user" ELSE "agent")
    /\ Len(h) % 2 = 1 => state = FAILED

\* C13: the service finishes all steps of a message/send for a task before it
\* begins the next message/send for that task, also under concurrent requests:
\* no handler starts work on a task while another is in flight for it, and the
\* history of every task no handler is working on alternates user, agent, ...,
\* with at most one trailing unanswered user message and that only when the
\* task is Failed.
C13_SendsSerialized ==
    [][ \A t \in DOMAIN tasks' :
          /\ (t \in DOMAIN tasks /\ StartsWorkOn(t)) => ~InFlight(t)
          /\ ~InFlight(t)' => Alternates(tasks'[t].history, tasks'[t].state) ]_vars

Min(a, b) == IF a <= b THEN a ELSE b

\* C14: a tasks/get whose params carry no history limit returns the complete
\* history of the task, however long it is.
C14_NoLimitReturnsAll ==
    (get_called /\ ~get_params.given) => get_returned = get_history

\* The history cut of the A2A triage service (identity_observe_wrapper_service.py):
\* a tasks/get with a history limit k >= 1 on a history of n messages returns
\* exactly the last min(k, n) messages, in their original order.
ServiceLimitReturnsLastK ==
    (get_called /\ get_params.given /\ get_params.historyLength >= 1) =>
        LET n == Len(get_history)
            m == Min(get_params.historyLength, n)
        IN /\ Len(get_returned) = m
           /\ \A i \in 1..m : get_returned[i] = get_history[n - m + i]

\* a tasks/get with limit 3 has returned the last three of five messages
ServiceLimitWitness ==
    /\ get_called
    /\ get_params = [given |-> TRUE, historyLength |-> 3]
    /\ Len(get_history) = 5
    /\ get_returned = <<3, 4, 5>>

\* C16: a tasks/cancel on a task that is not in a terminal state succeeds, sets
\* the state to Canceled with a new status timestamp and changes nothing else:
\* history, artifacts, status message and metadata of the task are as before,
\* every other task is untouched and no handler is started.
C16_CancelChangesStateOnly ==
    [][ \A t \in DOMAIN tasks :
          (resp'.method = "tasks/cancel" /\ resp'.taskId = t
            /\ tasks[t].state \notin TerminalChecked) =>
              /\ resp'.code = RESULT_OK
              /\ tasks'[t].state = CANCELED
              /\ tasks'[t].timestamp > tasks[t].timestamp
              /\ tasks'[t].timestamp = tasks'[t].clock
              /\ tasks' = [tasks EXCEPT ![t].state = CANCELED,
                                        ![t].timestamp = tasks'[t].timestamp,
                                        ![t].clock = tasks'[t].clock]
              /\ resp'.result = tasks'[t]
              /\ thr' = thr ]_vars

\* a tasks/cancel has just canceled a task that holds two agent replies
C16_Witness ==
    /\ resp.method = "tasks/cancel"
    /\ resp.code = RESULT_OK
    /\ resp.taskId \in DOMAIN tasks
    /\ tasks[resp.taskId].state = CANCELED
    /\ tasks[resp.taskId].message = AgentMsg("q")
    /\ Len(tasks[resp.taskId].history) = 4
    /\ tasks[resp.taskId].timestamp > 1

\* C17: every state transition of a task records a timestamp: after a step
\* that stores a task in the state its creation ended in, or that changes the
\* state of a stored task, the status timestamp is the time of that write of
\* the state, not one left over from an earlier write.
C17_TransitionsStamped ==
    [][ \A t \in DOMAIN tasks' :
          (t \notin DOMAIN tasks \/ tasks'[t].state # tasks[t].state) =>
              tasks'[t].timestamp = tasks'[t].clock ]_vars

----------------------------------------------------------------------------
(* Properties of the triagev2 agent *)

\* the task was created by a message that carried the contextId ClientCtx: the
\* message that created a task is the first of its history
CreatedWithContext(task) == task.history[1].contextId = ClientCtx

\* C18: a task created by a message that carries a contextId has exactly that
\* contextId: it is the contextId of the stored task and of the task a
\* message/send or tasks/get returns, the agent replies in its history carry
\* it, and the task id is listed under it in the contexts index.
C18_TaskKeepsSuppliedContext ==
    /\ \A t \in DOMAIN v2_tasks :
          CreatedWithContext(v2_tasks[t]) =>
              /\ v2_tasks[t].contextId = ClientCtx
              /\ \A i \in 1..Len(v2_tasks[t].history) :
                    v2_tasks[t].history[i].role = "agent" =>
                        v2_tasks[t].history[i].contextId = ClientCtx
              /\ ClientCtx \in DOMAIN v2_contexts
              /\ \E i \in 1..Len(v2_contexts[ClientCtx]) : v2_contexts[ClientCtx][i] = t
    /\ (v2_resp.kind = "task" /\ CreatedWithContext(v2_tasks[v2_resp.task.id])) =>
          v2_resp.task.contextId = ClientCtx

\* C15: a tasks/get with a history limit k >= 1 on a task whose history has n
\* messages returns a task whose history is exactly the last min(k, n) messages
\* of the stored history, in their original order.
C15_LimitReturnsLastK ==
    (v2_resp.method = "tasks/get" /\ v2_resp.taskId \in DOMAIN v2_tasks
      /\ v2_resp.hl >= 1) =>
        LET stored == v2_tasks[v2_resp.taskId].history
            n == Len(stored)
            m == Min(v2_resp.hl, n)
        IN /\ v2_resp.code = RESULT_OK
           /\ Len(v2_resp.task.history) = m
           /\ \A i \in 1..m : v2_resp.task.history[i] = stored[n - m + i]

----------------------------------------------------------------------------
(* Creation of tasks in the A2A triage service *)

\* the task creations this step has started
NewCreations ==
    {r \in BagToSet(thr') : r.pc = "start_triage" /\ CopiesIn(r, thr') > CopiesIn(r, thr)}

\* the contextIds of the stored tasks and of the tasks being created
ContextsInUse ==
    {tasks[t].contextId : t \in DOMAIN tasks}
        \cup {q.task.contextId : q \in {x \in BagToSet(thr) : x.pc = "start_triage"}}

\* C19: a task is created in state Submitted, with a non-empty contextId and,
\* when the message carries none (the contextId is not the client's), with a
\* generated contextId no other task has, and with an id different from the id
\* of every task in the store and of every task being created.
C19_CreatedSubmittedFreshIds ==
    [][ \A r \in NewCreations :
          /\ r.task.state = SUBMITTED
          /\ r.task.contextId # NoId
          /\ r.task.contextId # ClientCtx => r.task.contextId \notin ContextsInUse
          /\ r.task.id # NoId
          /\ r.task.id \notin DOMAIN tasks
          /\ \A q \in BagToSet(thr) : q.pc = "start_triage" => q.task.id # r.task.id
          /\ r.tid = r.task.id ]_vars

\* a task is being created for a message without contextId while another task
\* is in the store
C19_Witness ==
    \E r \in BagToSet(thr) :
        /\ r.pc = "start_triage"
        /\ r.task.state = SUBMITTED
        /\ r.task.contextId = GenCtx(r.task.id)
        /\ DOMAIN tasks # {}
        /\ r.task.id \notin DOMAIN tasks

----------------------------------------------------------------------------
(* Properties of Session.get_completion_percentage *)

\* the required fields that hold a non-empty value
NonEmptyRequired(data) == {f \in RequiredFieldSet : data[f] \notin {Absent, Empty}}

\* C20: a call of get_completion_percentage returns 100 x (number of the 8
\* required fields that are non-empty in the data at the moment of the call)
\* / 8, a value in [0,100] (here 0..1000 tenths), whatever an earlier call
\* returned, and leaves the data as they were.
C20_CompletionPercentageFresh ==
    [][ pct_op' = "call" =>
          /\ pct_result' * 8 = 1000 * Cardinality(NonEmptyRequired(pct_data))
          /\ pct_result' \in 0..1000
          /\ Cardinality(RequiredFieldSet) = 8
          /\ pct_data' = pct_data ]_vars

\* a call has returned 37.5 on data in which a required field was set to the
\* empty string
C20_Witness ==
    /\ pct_op = "call"
    /\ pct_result = 375
    /\ \E f \in RequiredFieldSet : pct_data[f] = Empty

----------------------------------------------------------------------------
(* Failures of the external calls of the voice agent of va_a2a_mcp.py *)

\* x is one of the elements of the sequence s
InSeq(x, s) == \E i \in 1..Len(s) : s[i] = x

\* C21: the Extraction call never raises into the turn loop: a turn whose only
\* call is the LLM call leaves start() running (the loop goes on, or the
\* session ends with done and is saved).
C21_ExtractionNeverRaises ==
    [][ (IsTurn /\ last'.calls = {"llm"}) =>
            /\ vpc' # "crashed"
            /\ last'.kind = "main" ]_vars

\* C22: a turn in which Discovery or Eligibility was called without success
\* does not abort the session, leaves payer and member_id as they were, tells
\* the user that the verification did not succeed, and start() goes on.
C22_InsuranceFailureDegrades ==
    [][ /\ (IsTurn /\ "discovery" \in last'.calls /\ ~InSeq("insurance", last'.said)) =>
              /\ vpc' # "crashed"
              /\ InSeq("insurance_fallback", last'.said)
              /\ \E extract \in ExtractInputs : session_data' = session_data \cup extract
        /\ (IsTurn /\ "eligibility" \in last'.calls /\ ~InSeq("eligibility", last'.said)) =>
              /\ vpc' # "crashed"
              /\ InSeq("eligibility_fallback", last'.said) ]_vars

----------------------------------------------------------------------------
(* Mutations of a task around the triage call of a continuing message/send *)

\* the continuing message/send calls whose triage call this step has started
NewTriageCalls ==
    {r \in BagToSet(thr') : r.pc = "send_triage" /\ CopiesIn(r, thr') > CopiesIn(r, thr)}

\* C23: a message/send that continues a task does not modify the task until
\* the triage call has returned: the step that starts the call leaves the
\* stored task, as a tasks/get sees it, exactly as it was before the request.
C23_NoMutationBeforeTriageReturns ==
    [][ \A r \in NewTriageCalls : tasks'[r.tid] = tasks[r.tid] ]_vars

----------------------------------------------------------------------------
(* The triage sub-dialog of the voice agent of va_a2a_mcp.py *)

\* the triage sub-dialog has been started and has ended
TriageEnded == triage_attempts >= 1 /\ ~in_triage_mode

\* C24: the triage sub-dialog is started at most once per session:
\* triage_attempts never exceeds 1 and, once triage has ended, in_triage_mode
\* never becomes true again and no later turn calls triage.
C24_TriageAtMostOnce ==
    [][ /\ triage_attempts' <= TriageAttemptLimit
        /\ triage_attempts' >= triage_attempts
        /\ TriageEnded =>
              /\ ~in_triage_mode'
              /\ triage_attempts' = triage_attempts
              /\ IsTurn => last'.kind # "start_triage" ]_vars

\* triage has ended and a later turn has gone through the main flow
C24_Witness ==
    /\ TriageEnded
    /\ triage_attempts = TriageAttemptLimit
    /\ triage_complete
    /\ last.kind = "main"
    /\ vpc = "loop"

----------------------------------------------------------------------------
(* Properties of the voice agent of va_http_mcp.py *)

\* C25: triage is attempted at most once per session: after run_triage has
\* been entered once, however it ended, no later turn enters it again.
C25_HttpTriageAtMostOnce ==
    [][ h_triage_entries >= 1 => h_triage_entries' = h_triage_entries ]_vars

----------------------------------------------------------------------------
(* Leaving the triage sub-dialog of the voice agent of va_a2a_mcp.py *)

\* replies in which the triage task reports a terminal state
TerminalReplies == {"completed", "failed", "canceled"}

\* C26: the triage sub-dialog is left only in a turn in which the triage task
\* reported a terminal state; as long as triage answers input-required the
\* sub-dialog stays active.
C26_TriageLeftOnTerminalOnly ==
    [][ (in_triage_mode /\ ~in_triage_mode') =>
            /\ last'.kind = "triage"
            /\ last'.reply \in TerminalReplies ]_vars

\* C27: at the start of every turn in_triage_mode is true only if
\* triage_task_id and triage_context_id are set, so that a continuation goes
\* to the task opened at triage start.
C27_TriageModeHasTask == in_triage_mode => triage_task_id

----------------------------------------------------------------------------
(* Readiness of the insurance calls in the two triage-capable voice agents *)

\* C28: a Discovery call is made only where name, date_of_birth and state are
\* all non-empty in the session data, and an Eligibility call only where name,
\* date_of_birth, member_id, payer and provider_name are all non-empty (here
\* for va_http_mcp.py; Discovery leaves the keys it requires as they are and
\* Eligibility does not write, so the data after the turn show what the calls
\* were given).
C28_HttpCallsOnlyWhenReady ==
    [][ h_turn' = h_turn + 1 =>
          /\ "discovery" \in h_last'.calls =>
                 \A k \in DiscoveryRequired : h_data'[k] = Text
          /\ "eligibility" \in h_last'.calls =>
                 \A k \in EligibilityRequired : h_data'[k] = Text ]_vars

\* the same readiness in va_a2a_mcp.py, whose session data hold non-empty
\* values only
VoiceCallsOnlyWhenReady ==
    [][ IsTurn =>
          /\ "discovery" \in last'.calls => DiscoveryRequired \subseteq session_data'
          /\ "eligibility" \in last'.calls => EligibilityRequired \subseteq session_data' ]_vars

\* C29: Eligibility is never called before Discovery: a turn that calls
\* Eligibility belongs to a session in which a Discovery call has been made
\* (in that turn or in an earlier one).
C29_EligibilityAfterDiscovery ==
    [][ (IsTurn /\ "eligibility" \in last'.calls) => discovery_calls' >= 1 ]_vars

----------------------------------------------------------------------------
(* The error counter of the voice agent of va_mcp.py *)

\* the turns that soft-fail: a speech failure, an empty input, an error raised
\* while the turn is processed
McpSoftFails == {"speech_issue", "no_input", "exception"}

\* C30: consecutive_errors is incremented by every turn that soft-fails and is
\* reset to 0 only by a turn that yields a usable response, so that three
\* failing turns in a row bring it to 3 and end the loop.
C30_SoftFailsAreCounted ==
    [][ turn_number' = turn_number + 1 =>
          /\ mcp_last' \in McpSoftFails => consecutive_errors' = consecutive_errors + 1
          /\ mcp_last' \notin McpSoftFails => consecutive_errors' = 0 ]_vars

----------------------------------------------------------------------------
(* The confirmation of the appointment *)

\* C31: in va_a2a_mcp.py a confirmation code is generated, and the appointment
\* announced as confirmed, only where the session data hold a non-empty name
\* and a non-empty preferred_date.
C31_ConfirmationNeedsNameAndDate ==
    [][ (IsTurn /\ InSeq("confirmation", last'.said)) =>
            ConfirmationRequired \subseteq session_data' ]_vars

\* C32: in va_mcp.py the session is closed as done only after a confirmation
\* code has been generated: whenever the done path has ended the session, the
\* session data hold a confirmation code.
C32_DoneHoldsConfirmation ==
    end_reason = "Completed successfully" => confirmation_code # NoCode

\* C33: once the session data hold a confirmation code, no later step of the
\* session replaces it: not a further extraction merge and not another run of
\* the closing sequence.
C33_ConfirmationCodeKept ==
    [][ confirmation_code # NoCode => confirmation_code' = confirmation_code ]_vars

\* C34: merging an extraction result into the session data never replaces a
\* non-empty field value by an empty one: the keys that hold a value before a
\* turn hold one after it.
C34_MergeKeepsNonEmpty ==
    [][ turn_number' = turn_number + 1 => mcp_data \subseteq mcp_data' ]_vars

----------------------------------------------------------------------------
(* Further properties of the triagev2 agent *)

\* the message/send calls that return in this step
V2Returning == {r \in BagToSet(v2_thr) : CopiesIn(r, v2_thr') < CopiesIn(r, v2_thr)}

\* C35: when the first message/send of a new task returns, the task is in
\* InputRequired, or in Failed if the processing of the turn failed: it is not
\* moved straight from Submitted to Completed and not left in Submitted.
C35_FirstTurnLeavesSubmitted ==
    [][ \A r \in V2Returning :
           v2_tasks[r.task_id].state = SUBMITTED =>
              /\ v2_tasks'[r.task_id].state \in {INPUT_REQUIRED, FAILED}
              /\ v2_resp'.code = INTERNAL_ERROR => v2_tasks'[r.task_id].state = FAILED ]_vars

\* C36: every task the wrapper service stores is in InputRequired, Completed,
\* Failed or Canceled; a stored task is never Submitted, Working, Rejected,
\* AuthRequired or Unknown, while first turns, later turns and cancels run
C36_StoredStates ==
    \A t \in DOMAIN tasks :
        tasks[t].state \in {INPUT_REQUIRED, COMPLETED, FAILED, CANCELED}

\* a first turn is still running for one task while another one, stored after
\* its own first turn failed, is held next to it
C36_Witness ==
    /\ \E r \in BagToSet(thr) : r.pc = "start_triage" /\ r.tid \notin DOMAIN tasks
    /\ \E t \in DOMAIN tasks : tasks[t].state = FAILED /\ Len(tasks[t].history) = 1

\* C37: every stored task in InputRequired carries a triage_token and a
\* survey_id in its metadata
C37_InputRequiredHasSession ==
    \A t \in DOMAIN tasks :
        tasks[t].state = INPUT_REQUIRED =>
            /\ tasks[t].metadata.triage_token # "none"
            /\ tasks[t].metadata.survey_id # "none"

\* a task is InputRequired after a later turn, next to a task whose first turn
\* failed and left no session in its metadata
C37_Witness ==
    /\ \E t \in DOMAIN tasks :
          /\ tasks[t].state = INPUT_REQUIRED
          /\ Len(tasks[t].history) >= 4
          /\ tasks[t].metadata.triage_token = "tok"
    /\ \E t \in DOMAIN tasks :
          tasks[t].state = FAILED /\ tasks[t].metadata.triage_token = "none"

\* the last message of role agent in a history, NoV2Msg when there is none
RECURSIVE LastAgentMessage(_)
LastAgentMessage(h) ==
    IF h = <<>> THEN NoV2Msg
    ELSE IF h[Len(h)].role = "agent" THEN h[Len(h)]
    ELSE LastAgentMessage(SubSeq(h, 1, Len(h) - 1))

\* C38: after any sequence of message/send and tasks/cancel of the triagev2
\* agent, a task whose status carries a message has that message as the last
\* agent message of its history
C38_StatusMessageIsLastAgentMessage ==
    \A t \in DOMAIN v2_tasks :
        v2_tasks[t].message # NoV2Msg =>
            v2_tasks[t].message = LastAgentMessage(v2_tasks[t].history)

\* position of a stage in the order initial, generic, specific, assessment,
\* complete
StageIndex(stage) == CHOOSE i \in 1..Len(Stages) : Stages[i] = stage

\* C39: current_stage of a triagev2 task only moves forward through initial,
\* generic, specific, assessment, complete: a step may skip stages or keep the
\* stage, it never takes a task back to an earlier stage
C39_StageOnlyForward ==
    [][ \A t \in DOMAIN v2_tasks :
           StageIndex(v2_tasks'[t].current_stage)
               >= StageIndex(v2_tasks[t].current_stage) ]_vars

\* C40: the turn loop of va_a2a_mcp always terminates when every listen and
\* every call returns: it makes at most 50 iterations, the speech-error counter
\* stays within 0..3, and no iteration begins once the counter has reached 3
C40_LoopTerminates ==
    /\ [](turn \in 0..TurnLimit /\ errors \in 0..ErrorLimit)
    /\ [][errors = ErrorLimit => turn' = turn]_vars
    /\ <>(vpc # "loop")

\* the loop has made all 50 iterations and was left by its condition, the
\* last three of them speech errors
C40_Witness ==
    /\ vpc = "ended"
    /\ turn = TurnLimit
    /\ errors = ErrorLimit

====
